---- MODULE Spec2Model ----
(***************************************************************************)
(* Session isolation and token handling of the Gmail MCP server.           *)
(*                                                                         *)
(* Three parts of the repository are modelled, each with its own           *)
(* specification over the same variables:                                  *)
(*   SpecMgr   SessionAwareTransportManager (session-aware-transport.ts)   *)
(*   SpecHttp  the /mcp endpoint of startHttpServer (index.ts), which      *)
(*             connects the single mcpServer built in main to the          *)
(*             transport of every session                                  *)
(*   SpecTok   sessionStore / tokenToSessionMap (index.ts)                 *)
(* SpecEndpoints runs either SpecMgr or SpecHttp.  SpecGate is the         *)
(* authentication gate of the CallTool handler, SpecCtx the request        *)
(* contexts of session-aware-transport.ts.                                 *)
(* Time is in milliseconds, as Date.now() reports it.  An await is a       *)
(* suspension point: the part of a function before it and the part after   *)
(* it are separate actions, and other actions may run in between.          *)
(***************************************************************************)
EXTENDS Integers, Sequences, FiniteSets, TLC

VARIABLES
    now,         \* Date.now()
    ret,         \* outcome of the operation that completed last
    \* ---- SessionAwareTransportManager
    sessions,    \* this.sessions: sessionId -> SessionTransportData
    minted,      \* session ids randomUUID has returned so far
    objects,     \* number of Server/transport pairs constructed so far
    closedT,     \* transports whose close() has run
    creating,    \* getOrCreateSession calls awaiting mcpServer.connect
    closing,     \* closeSession calls awaiting transport.close, per id
    order,       \* the keys of this.sessions in insertion order
    handlers,    \* request handlers set on each Server: Server -> methods
    failed,      \* ids of the sessions whose creation threw
    sweep,       \* the run of cleanupInactiveSessions in progress, or the last one
    teardown,    \* destroy(): whether it has run, and where its loop stands
    \* ---- /mcp endpoint of startHttpServer and the shared mcpServer
    transports,       \* transports.streamable: sessionId -> transport
    tports,           \* every transport constructed, keyed by the id it was built for
    serverTransport,  \* mcpServer's transport: the one connected last
    conns,            \* HTTP requests that reached a transport, in arrival order
    served,           \* sessions in the order each first got a tool call answered
    \* ---- session tokens (index.ts)
    sessionStore,       \* sessionStore: auth session id -> SessionData
    tokenToSessionMap,  \* tokenToSessionMap: token -> auth session id
    tokenLog,           \* every token generated so far: whom for, and when
    disk,               \* the OAuth key and credential files loadCredentials reads
    \* ---- request contexts (session-aware-transport.ts)
    reqs,        \* calls of handleSessionRequest, in order of entry
    emitted,     \* what send() of a session's transport was asked to emit, in order
    \* ---- OAuth flow of get_auth_url / check_authentication (index.ts)
    pendingAuthStore,  \* pendingAuthStore: auth session id -> authentication attempt
    attempts,          \* the attempts started: client, callback server, outcome
    \* ---- a batch tool call (index.ts)
    batchRun     \* the run of processBatches in progress, or the last one

mgrVars == <<sessions, minted, objects, closedT, creating, closing,
            order, handlers, failed, sweep,
            teardown>>
httpVars == <<transports, tports, serverTransport, conns, served>>
tokVars == <<sessionStore, tokenToSessionMap, tokenLog, disk>>
ctxVars == <<reqs, emitted>>
authVars == <<pendingAuthStore, attempts>>
vars == <<now, ret, mgrVars, httpVars, tokVars, ctxVars, authVars, batchRun>>

\* ------------------------------------------------------------------ bounds
MaxSessions == 2      \* session ids randomUUID may hand out
MaxRequests == 2      \* cap on a session's requestCount
MaxOverlap == 1       \* closeSession calls in flight for one id
MaxConns == 5         \* HTTP requests accepted by the /mcp endpoint
MaxRpcId == 2         \* JSON-RPC request ids a client uses: 1..MaxRpcId
MaxTokens == 3        \* tokens generateSessionToken may hand out
Step == 60000         \* granularity of the clock readings (one minute)
MaxCtxReqs == 3       \* calls of handleSessionRequest
MaxOutside == 1       \* messages sent outside every request
MaxAttempts == 3      \* calls of get_auth_url
MaxPorts == 2         \* ports a callbackUrl may name
MaxItems == 3         \* message ids of one batch tool call
Den == 2              \* batch sizes are multiples of 1/Den
MaxTurns == 8         \* turns of the loop of processBatches that are followed

\* --------------------------------------------------------- program constants
IdleMaxAge == 3600000     \* 60 * 60 * 1000
DefaultBatchSize == 50    \* validatedArgs.batchSize || 50
TokenMaxAge == 86400000   \* 24 * 60 * 60 * 1000

\* ------------------------------------------------------------------ values
Uuid(i) == <<"uuid", i>>
SessionIds == {Uuid(i) : i \in 1..MaxSessions}
\* An absent mcp-session-id (undefined); the empty string is falsy as well.
Undefined == <<"undefined", 0>>
\* 'auth-' + sessionId
AuthOf(sessionId) == <<"auth-" \o sessionId[1], sessionId[2]>>
ServerObj(n) == <<"Server", n>>
TransportObj(n) == <<"Transport", n>>
NoRet == [op |-> "none"]
\* The session ids a caller may present.
Inputs == SessionIds \cup {Undefined}

MgrClock == {0, Step, IdleMaxAge + Step}

\* A later reading of the clock.
Tick(points) ==
    /\ \E t \in points : t > now /\ now' = t
    /\ UNCHANGED <<ret, mgrVars, httpVars, tokVars, ctxVars, authVars, batchRun>>

\* ------------------------------------------- SessionAwareTransportManager
\* randomUUID(): an id never returned before.  The ids are opaque, so they
\* are handed out in index order.
RandomUUID == {u \in SessionIds \ minted : \A v \in SessionIds \ minted : u[2] <= v[2]}

\* The transport built for a session: it reports the id it was built with.
NewTransport(n, sessionId) == [obj |-> TransportObj(n), sessionId |-> sessionId]

\* The single Server built in main and passed to startHttpServer.
McpServer == ServerObj(0)

\* The tools the ListTools handler of main returns: a literal list.
ToolList ==
    {"send_email", "draft_email", "read_email", "search_emails", "modify_email",
     "delete_email", "list_email_labels", "batch_modify_emails",
     "batch_delete_emails", "create_label", "update_label", "delete_label",
     "get_or_create_label", "download_attachment", "get_auth_url",
     "check_authentication", "setup_authentication", "authenticate_with_token"}

\* The toolHandlers map the /mcp route passes to getOrCreateSession.
ToolHandlers == {"tools/list", "tools/call"}

\* Variant: only the call-tool handler is set on a session's server.
SetRequestHandlersCallOnly(toolHandlers) == toolHandlers \cap {"tools/call"}

\* for (const [schema, handler] of toolHandlers) mcpServer.setRequestHandler(...)
SetRequestHandlers(toolHandlers) == toolHandlers

\* this.sessions.set(key, data)
MapSet(map, key, data) ==
    [k \in DOMAIN map \cup {key} |-> IF k = key THEN data ELSE map[k]]

\* this.sessions.delete(key)
MapDelete(map, key) == [k \in DOMAIN map \ {key} |-> map[k]]

\* The insertion order of a Map's keys once key is deleted.
Without(keys, key) == SelectSeq(keys, LAMBDA k : k # key)

\* No run of cleanupInactiveSessions has started yet.
NoSweep == [running |-> FALSE, now |-> 0, todo |-> <<>>, awaiting |-> Undefined,
            old |-> {}, young |-> {}]

\* getOrCreateSession, first branch up to the await of mcpServer.connect.
CreateBegin(sessionId, isInitializeRequest) ==
    /\ sessionId = Undefined /\ isInitializeRequest
    /\ \E newSessionId \in RandomUUID :
          /\ minted' = minted \cup {newSessionId}
          /\ objects' = objects + 1
          /\ creating' = creating \cup
                {[sessionId |-> newSessionId,
                  authSessionId |-> AuthOf(newSessionId),
                  mcpServer |-> ServerObj(objects + 1),
                  transport |-> NewTransport(objects + 1, newSessionId)]}
          /\ handlers' = MapSet(handlers, ServerObj(objects + 1),
                                SetRequestHandlers(ToolHandlers))
    /\ UNCHANGED <<now, ret, sessions, closedT, closing, order, failed, sweep,
                   httpVars, tokVars, ctxVars, authVars, batchRun,
                   teardown>>

\* Variant: the initialization request is counted as a request.
NewSessionDataCounted(c) ==
    [transport |-> c.transport, mcpServer |-> c.mcpServer,
     sessionId |-> c.sessionId, authSessionId |-> c.authSessionId,
     createdAt |-> now, lastActivity |-> now, requestCount |-> 1]

\* The record getOrCreateSession registers once connect has resolved.
NewSessionData(c) ==
    [transport |-> c.transport,
     mcpServer |-> c.mcpServer,
     sessionId |-> c.sessionId,
     authSessionId |-> c.authSessionId,
     createdAt |-> now,
     lastActivity |-> now,
     requestCount |-> 0]

\* getOrCreateSession, first branch after the await: register and return.
CreateFinish(c) ==
    /\ c \in creating
    /\ creating' = creating \ {c}
    /\ sessions' = MapSet(sessions, c.sessionId, NewSessionData(c))
    /\ ret' = [op |-> "getOrCreateSession", ok |-> TRUE, arg |-> Undefined,
               init |-> TRUE, isNewSession |-> TRUE,
               sessionData |-> NewSessionData(c)]
    /\ order' = Append(order, c.sessionId)
    /\ UNCHANGED <<now, minted, objects, closedT, closing, handlers, failed,
                   sweep, httpVars, tokVars, ctxVars, authVars, batchRun,
                   teardown>>

\* Variant: the request is counted but lastActivity is left as it was.
TouchedKeepsTime(data) ==
    [data EXCEPT !.requestCount = data.requestCount + 1]

\* The record after lastActivity = new Date() and requestCount++.
Touched(data) ==
    [data EXCEPT !.lastActivity = now, !.requestCount = data.requestCount + 1]

\* Variant: an initialize request that names a known session is answered
\* from the registry without being counted.
ResolveExistingUncounted(sessionId, isInitializeRequest) ==
    /\ ~(sessionId = Undefined /\ isInitializeRequest)
    /\ sessionId # Undefined /\ sessionId \in DOMAIN sessions
    /\ sessions[sessionId].requestCount < MaxRequests
    /\ sessions' = [sessions EXCEPT ![sessionId] =
                       IF isInitializeRequest
                       THEN [@ EXCEPT !.lastActivity = now]
                       ELSE Touched(@)]
    /\ ret' = [op |-> "getOrCreateSession", ok |-> TRUE, arg |-> sessionId,
               init |-> isInitializeRequest, isNewSession |-> FALSE,
               sessionData |-> sessions'[sessionId]]
    /\ UNCHANGED <<now, minted, objects, closedT, creating, closing, order,
                   handlers, failed, sweep, httpVars, tokVars, ctxVars,
                   authVars, batchRun, teardown>>

\* getOrCreateSession, second branch: a known session id.
ResolveExisting(sessionId, isInitializeRequest) ==
    /\ ~(sessionId = Undefined /\ isInitializeRequest)
    /\ sessionId # Undefined /\ sessionId \in DOMAIN sessions
    /\ sessions[sessionId].requestCount < MaxRequests
    /\ sessions' = [sessions EXCEPT ![sessionId] = Touched(sessions[sessionId])]
    /\ ret' = [op |-> "getOrCreateSession", ok |-> TRUE, arg |-> sessionId,
               init |-> isInitializeRequest, isNewSession |-> FALSE,
               sessionData |-> Touched(sessions[sessionId])]
    /\ UNCHANGED <<now, minted, objects, closedT, creating, closing, order,
                   handlers, failed, sweep, httpVars, tokVars, ctxVars,
                   authVars, batchRun, teardown>>

\* getOrCreateSession, neither branch: throw new Error('Invalid session ID').
ResolveInvalid(sessionId, isInitializeRequest) ==
    /\ ~(sessionId = Undefined /\ isInitializeRequest)
    /\ ~(sessionId # Undefined /\ sessionId \in DOMAIN sessions)
    /\ ret' = [op |-> "getOrCreateSession", ok |-> FALSE, arg |-> sessionId,
               init |-> isInitializeRequest, error |-> "Invalid session ID"]
    /\ UNCHANGED <<now, mgrVars, httpVars, tokVars, ctxVars, authVars, batchRun>>

\* closeSession on an id that is not registered: return false.
CloseAbsent(sessionId) ==
    /\ sessionId \notin DOMAIN sessions
    /\ ret' = [op |-> "closeSession", arg |-> sessionId, result |-> FALSE]
    /\ UNCHANGED <<now, mgrVars, httpVars, tokVars, ctxVars, authVars, batchRun>>

\* closeSession on a registered id, up to the await: transport.close() runs.
CloseBegin(sessionId) ==
    /\ sessionId \in DOMAIN sessions
    /\ closing[sessionId] < MaxOverlap
    /\ closedT' = closedT \cup {sessions[sessionId].transport.obj}
    /\ closing' = [closing EXCEPT ![sessionId] = @ + 1]
    /\ UNCHANGED <<now, ret, sessions, minted, objects, creating, order,
                   handlers, failed, sweep, httpVars, tokVars, ctxVars,
                   authVars, batchRun, teardown>>

\* Variant: closeSession returns true without removing the entry.
CloseFinishKeeps(sessionId) ==
    /\ closing[sessionId] > 0
    /\ closing' = [closing EXCEPT ![sessionId] = @ - 1]
    /\ ret' = [op |-> "closeSession", arg |-> sessionId, result |-> TRUE]
    /\ UNCHANGED <<now, sessions, minted, objects, closedT, creating, order,
                   handlers, failed, sweep, httpVars, tokVars, ctxVars,
                   authVars, batchRun, teardown>>

\* closeSession after the await: this.sessions.delete(sessionId); return true.
CloseFinish(sessionId) ==
    /\ closing[sessionId] > 0
    /\ closing' = [closing EXCEPT ![sessionId] = @ - 1]
    /\ sessions' = MapDelete(sessions, sessionId)
    /\ order' = Without(order, sessionId)
    /\ ret' = [op |-> "closeSession", arg |-> sessionId, result |-> TRUE]
    /\ UNCHANGED <<now, minted, objects, closedT, creating, handlers, failed,
                   sweep, httpVars, tokVars, ctxVars, authVars, batchRun,
                   teardown>>

\* getOrCreateSession, first branch: new Server, setRequestHandler or the
\* transport's constructor throws, and the call rejects before any await.
CreateThrow(sessionId, isInitializeRequest) ==
    /\ sessionId = Undefined /\ isInitializeRequest
    /\ \E newSessionId \in RandomUUID :
          /\ minted' = minted \cup {newSessionId}
          /\ failed' = failed \cup {newSessionId}
          /\ ret' = [op |-> "getOrCreateSession", ok |-> FALSE, arg |-> Undefined,
                     init |-> TRUE, error |-> "threw", newSessionId |-> newSessionId]
    /\ UNCHANGED <<now, sessions, objects, closedT, creating, closing, order,
                   handlers, sweep, httpVars, tokVars, ctxVars,
                   authVars, batchRun, teardown>>

\* Variant: the session is registered before connect is awaited, so a
\* rejected connect leaves the entry behind.
CreateFailRegistered(c) ==
    /\ c \in creating
    /\ creating' = creating \ {c}
    /\ failed' = failed \cup {c.sessionId}
    /\ sessions' = MapSet(sessions, c.sessionId, NewSessionData(c))
    /\ order' = Append(order, c.sessionId)
    /\ ret' = [op |-> "getOrCreateSession", ok |-> FALSE, arg |-> Undefined,
               init |-> TRUE, error |-> "connect rejected",
               newSessionId |-> c.sessionId]
    /\ UNCHANGED <<now, minted, objects, closedT, closing, handlers, sweep,
                   httpVars, tokVars, ctxVars, authVars, batchRun,
                   teardown>>

\* getOrCreateSession, first branch: await mcpServer.connect(transport)
\* rejects, and the call rejects with it; sessions.set is never reached.
CreateFail(c) ==
    /\ c \in creating
    /\ creating' = creating \ {c}
    /\ failed' = failed \cup {c.sessionId}
    /\ ret' = [op |-> "getOrCreateSession", ok |-> FALSE, arg |-> Undefined,
               init |-> TRUE, error |-> "connect rejected",
               newSessionId |-> c.sessionId]
    /\ UNCHANGED <<now, sessions, minted, objects, closedT, closing, order,
                   handlers, sweep, httpVars, tokVars, ctxVars,
                   authVars, batchRun, teardown>>

\* Variant: an entry idle for exactly maxAge counts as inactive.
IdleAtLeast(reg, sessionId, tick) == tick - reg[sessionId].lastActivity >= IdleMaxAge

\* age > maxAge for the entry of sessionId, with the sweep's reading of the clock.
Idle(reg, sessionId, tick) == tick - reg[sessionId].lastActivity > IdleMaxAge

\* The entries still to visit, from the next one the sweep closes on: the
\* loop passes over the entries that are not idle without suspending.  An
\* entry deleted meanwhile is not visited.  An entry inserted after the sweep
\* began is visited too, but its lastActivity is not before the sweep's
\* reading of the clock, so it is passed over like the others.
RECURSIVE NextIdle(_, _, _)
NextIdle(todo, reg, tick) ==
    IF todo = <<>> THEN <<>>
    ELSE IF Head(todo) \in DOMAIN reg /\ Idle(reg, Head(todo), tick) THEN todo
    ELSE NextIdle(Tail(todo), reg, tick)

\* cleanupInactiveSessions from the entry it has reached up to its next
\* await this.closeSession(sessionId), which runs transport.close() of that
\* entry and suspends, or up to the end of the loop.
SweepOn(todo, reg, run) ==
    LET rest == NextIdle(todo, reg, run.now) IN
    IF rest = <<>>
    THEN /\ sweep' = [run EXCEPT !.running = FALSE, !.todo = <<>>,
                                 !.awaiting = Undefined]
         /\ closedT' = closedT
    ELSE /\ sweep' = [run EXCEPT !.running = TRUE, !.todo = Tail(rest),
                                 !.awaiting = Head(rest)]
         /\ closedT' = closedT \cup {reg[Head(rest)].transport.obj}

\* The interval timer fires: cleanupInactiveSessions reads the clock and
\* starts its loop over this.sessions.entries().  old and young record which
\* entries were idle for more, and for less, than maxAge at that reading.
CleanupBegin ==
    /\ ~sweep.running
    /\ SweepOn(order, sessions,
               [NoSweep EXCEPT
                   !.now = now,
                   !.old = {s \in DOMAIN sessions : now - sessions[s].lastActivity > IdleMaxAge},
                   !.young = {s \in DOMAIN sessions : now - sessions[s].lastActivity < IdleMaxAge}])
    /\ UNCHANGED <<now, ret, sessions, minted, objects, creating, closing, order,
                   handlers, failed, httpVars, tokVars, ctxVars,
                   authVars, batchRun, teardown>>

\* Variant: the sweep's closeSession drops the record and the token of the
\* session's auth identity as transport.onclose of the /mcp endpoint does.
CleanupResumeDropsRecord ==
    /\ sweep.running
    /\ sessions' = MapDelete(sessions, sweep.awaiting)
    /\ order' = Without(order, sweep.awaiting)
    /\ SweepOn(sweep.todo, MapDelete(sessions, sweep.awaiting), sweep)
    /\ sessionStore' = MapDelete(sessionStore, AuthOf(sweep.awaiting))
    /\ tokenToSessionMap' =
          [t \in {u \in DOMAIN tokenToSessionMap :
                     tokenToSessionMap[u] # AuthOf(sweep.awaiting)}
             |-> tokenToSessionMap[t]]
    /\ UNCHANGED <<now, ret, minted, objects, creating, closing, handlers,
                   failed, httpVars, tokenLog, disk, ctxVars,
                   authVars, batchRun, teardown>>

\* The sweep's closeSession resumes after its await: the entry is deleted,
\* closeSession returns and the loop goes on.
CleanupResume ==
    /\ sweep.running
    /\ sessions' = MapDelete(sessions, sweep.awaiting)
    /\ order' = Without(order, sweep.awaiting)
    /\ SweepOn(sweep.todo, MapDelete(sessions, sweep.awaiting), sweep)
    /\ UNCHANGED <<now, ret, minted, objects, creating, closing, handlers,
                   failed, httpVars, tokVars, ctxVars, authVars, batchRun,
                   teardown>>

\* Variant: every entry ever handed out is counted.
TotalSessionsEver(reg) == Cardinality(minted)

\* this.sessions.size
TotalSessions(reg) == Cardinality(DOMAIN reg)

\* Array.from(this.sessions.entries()).map(...)
SessionSummaries(reg, keys) ==
    [i \in 1..Len(keys) |->
        [sessionId |-> keys[i],
         authSessionId |-> reg[keys[i]].authSessionId,
         requestCount |-> reg[keys[i]].requestCount,
         age |-> now - reg[keys[i]].createdAt]]

\* getSessionStats()
GetSessionStats ==
    /\ ret' = [op |-> "getSessionStats",
               totalSessions |-> TotalSessions(sessions),
               sessions |-> SessionSummaries(sessions, order)]
    /\ UNCHANGED <<now, mgrVars, httpVars, tokVars, ctxVars, authVars, batchRun>>

\* A tools/list request dispatched by the Server of a registered session:
\* the handler set for the method runs, or the Server answers that it has
\* none.
ListTools(sessionId) ==
    /\ sessionId \in DOMAIN sessions
    /\ ret' = IF "tools/list" \in handlers[sessions[sessionId].mcpServer]
              THEN [op |-> "tools/list", arg |-> sessionId, ok |-> TRUE,
                    tools |-> ToolList]
              ELSE [op |-> "tools/list", arg |-> sessionId, ok |-> FALSE,
                    error |-> "Method not found"]
    /\ UNCHANGED <<now, mgrVars, httpVars, tokVars, ctxVars, authVars, batchRun>>

\* destroy() has not been called.
NoTeardown == [phase |-> "none", todo |-> <<>>, awaiting |-> Undefined]

InitMgr ==
    /\ now = 0
    /\ ret = NoRet
    /\ sessions = <<>>
    /\ minted = {}
    /\ objects = 0
    /\ closedT = {}
    /\ creating = {}
    /\ closing = [s \in SessionIds |-> 0]
    /\ order = <<>>
    /\ handlers = [server \in {McpServer} |-> ToolHandlers]
    /\ failed = {}
    /\ sweep = NoSweep
    /\ teardown = NoTeardown

InitHttp ==
    /\ transports = <<>>
    /\ tports = <<>>
    /\ serverTransport = Undefined
    /\ conns = <<>>
    /\ served = <<>>

InitTok ==
    /\ sessionStore = <<>>
    /\ tokenToSessionMap = <<>>
    /\ tokenLog = <<>>
    /\ disk = [oauthKeys |-> FALSE, envCredentials |-> FALSE,
               keys |-> {}, credentials |-> <<>>]

InitCtx ==
    /\ reqs = <<>>
    /\ emitted = <<>>

\* No batch tool has been called yet.
NoBatch == [phase |-> "idle"]

InitAuth ==
    /\ pendingAuthStore = <<>>
    /\ attempts = <<>>
    /\ batchRun = NoBatch

Init == InitMgr /\ InitHttp /\ InitTok /\ InitCtx /\ InitAuth

\* getOrCreateSession(sessionId, ..., isInitializeRequest, ...) up to its
\* return, its throw or its await.
GetOrCreateSession(sessionId, isInitializeRequest) ==
    \/ CreateBegin(sessionId, isInitializeRequest)
    \/ CreateThrow(sessionId, isInitializeRequest)
    \/ ResolveExisting(sessionId, isInitializeRequest)
    \/ ResolveInvalid(sessionId, isInitializeRequest)

\* closeSession(sessionId) up to its return or its await.
CloseSession(sessionId) ==
    \/ CloseAbsent(sessionId)
    \/ CloseBegin(sessionId)

NextMgr ==
    \/ Tick(MgrClock)
    \/ \E s \in Inputs, b \in BOOLEAN : GetOrCreateSession(s, b)
    \/ \E c \in creating : CreateFinish(c)
    \/ \E c \in creating : CreateFail(c)
    \/ CleanupBegin
    \/ CleanupResume
    \/ GetSessionStats
    \/ \E s \in SessionIds : ListTools(s)
    \/ \E s \in SessionIds : CloseSession(s)
    \/ \E s \in SessionIds : CloseFinish(s)

SpecMgr == Init /\ [][NextMgr]_vars

\* ---------------------------------- destroy() of the session manager
\* The ids of the snapshot still registered, from the next one on:
\* closeSession of an id that is gone returns false without suspending.
RECURSIVE NextRegistered(_, _)
NextRegistered(todo, reg) ==
    IF todo = <<>> THEN <<>>
    ELSE IF Head(todo) \in DOMAIN reg THEN todo
    ELSE NextRegistered(Tail(todo), reg)

\* The loop of destroy() from the id it has reached up to the await inside
\* its next closeSession, which has run transport.close() by then, or up
\* to the end of the loop, where destroy() resolves.
DestroyOn(todo, reg) ==
    LET rest == NextRegistered(todo, reg) IN
    IF rest = <<>>
    THEN /\ teardown' = [phase |-> "done", todo |-> <<>>, awaiting |-> Undefined]
         /\ closedT' = closedT
         /\ ret' = [op |-> "destroy"]
    ELSE /\ teardown' = [phase |-> "running", todo |-> Tail(rest),
                         awaiting |-> Head(rest)]
         /\ closedT' = closedT \cup {reg[Head(rest)].transport.obj}
         /\ ret' = ret

\* destroy(): clearInterval, then the loop over Array.from(sessions.keys()).
DestroyBegin ==
    /\ teardown.phase = "none"
    /\ DestroyOn(order, sessions)
    /\ UNCHANGED <<now, sessions, minted, objects, creating, closing, order,
                   handlers, failed, sweep, httpVars, tokVars, ctxVars,
                   authVars, batchRun>>

\* The closeSession destroy() awaits resumes: the entry is deleted and the
\* loop goes on.
DestroyResume ==
    /\ teardown.phase = "running"
    /\ sessions' = MapDelete(sessions, teardown.awaiting)
    /\ order' = Without(order, teardown.awaiting)
    /\ DestroyOn(teardown.todo, MapDelete(sessions, teardown.awaiting))
    /\ UNCHANGED <<now, minted, objects, creating, closing, handlers, failed,
                   sweep, httpVars, tokVars, ctxVars, authVars, batchRun>>

\* The interval timer fires, unless destroy() has cleared it.
TimerFires ==
    /\ teardown.phase = "none"
    /\ CleanupBegin

NextDestroy ==
    \/ Tick(MgrClock)
    \/ \E s \in Inputs, b \in BOOLEAN : CreateBegin(s, b)
    \/ \E c \in creating : CreateFinish(c)
    \/ \E s \in Inputs, b \in BOOLEAN : ResolveExisting(s, b)
    \/ TimerFires
    \/ CleanupResume
    \/ DestroyBegin
    \/ DestroyResume

SpecDestroy == Init /\ [][NextDestroy]_vars

\* -------------------------------------------------------- request contexts
\* AsyncLocalStorage is part of Node: run(store, fn) makes store the value
\* getStore() returns in fn and in everything fn causes asynchronously, and
\* in nothing else; outside every run getStore() returns undefined.  Each
\* call of handleSessionRequest is such an asynchronous chain.
\* The ids a client may put in requestBody.id; 0 is falsy.
ClientIds == 0..MaxRpcId
RequestUuid(n) == <<"request-uuid", n>>
\* The id of the request body as a request id.
JsonId(id) == <<"json-rpc id", id>>

\* requestBody.id || randomUUID(), for the n-th request
RequestIdOf(id, n) == IF id # 0 THEN JsonId(id) ELSE RequestUuid(n)

\* The RequestContext handleSessionRequest builds.
NewRequestContext(sessionData, requestId) ==
    [sessionId |-> sessionData.sessionId,
     authSessionId |-> sessionData.authSessionId,
     requestId |-> requestId,
     mcpServer |-> sessionData.mcpServer,
     startTime |-> now]

\* What getStore() returns outside every run(): undefined.
NoStore == [undefined |-> TRUE]
\* The chain of a call that no request caused.
Outside == 0

\* Variant: one context for the whole process, the one set last.
GetStoreLastEntered(r) == IF reqs = <<>> THEN NoStore ELSE reqs[Len(reqs)].store

\* requestContextStorage.getStore() in the chain of request r, or outside
\* every request.
GetStore(r) == IF r = Outside THEN NoStore ELSE reqs[r].store

\* handleSessionRequest(sessionData, req, res, requestBody) for a registered
\* session, up to the dispatch of the message to the session's Server: the
\* context is built and run() entered; the transport's handleRequest finds
\* it with getStore(), enters run() with it again and hands the request to
\* StreamableHTTPServerTransport.handleRequest.
HandleSessionRequest(sessionId, id) ==
    /\ sessionId \in DOMAIN sessions
    /\ Len(reqs) < MaxCtxReqs
    /\ LET requestContext ==
              NewRequestContext(sessions[sessionId], RequestIdOf(id, Len(reqs) + 1))
       IN reqs' = Append(reqs, [sessionId |-> sessionId, id |-> id,
                                entry |-> requestContext,
                                store |-> requestContext,
                                stage |-> "dispatched"])
    /\ UNCHANGED <<now, ret, mgrVars, httpVars, tokVars, emitted, authVars, batchRun>>

\* handleRequest of a session's transport called outside every run():
\* throw new Error('No request context available ...').
HandleRequestDirect(sessionId) ==
    /\ sessionId \in DOMAIN sessions
    /\ GetStore(Outside) = NoStore
    /\ ret' = [op |-> "handleRequest", arg |-> sessionId, ok |-> FALSE,
               error |-> "No request context available"]
    /\ UNCHANGED <<now, mgrVars, httpVars, tokVars, ctxVars, authVars, batchRun>>

\* send(message) of the transport of sessionId, called in the chain of
\* request r or outside every request: with a context, super.send runs
\* inside run(currentContext); without one a warning is logged and
\* super.send runs all the same.
TransportSend(sessionId, r, currentContext) ==
    emitted' = Append(emitted,
        IF currentContext # NoStore
        THEN [transport |-> sessionId, chain |-> r, ctx |-> currentContext,
              superSend |-> TRUE]
        ELSE [transport |-> sessionId, chain |-> r, ctx |-> NoStore,
              superSend |-> TRUE])

\* The handler of request r returns and the Server sends the response on
\* the session's transport, in the chain of r.
SendResponse(r) ==
    /\ r \in DOMAIN reqs /\ reqs[r].stage = "dispatched"
    /\ TransportSend(reqs[r].sessionId, r, GetStore(r))
    /\ reqs' = [reqs EXCEPT ![r].stage = "sent"]
    /\ UNCHANGED <<now, ret, mgrVars, httpVars, tokVars, authVars, batchRun>>

\* The Server of a session sends a message that no request caused (a
\* notification from a timer, say): send runs outside every run().
SendOutside(sessionId) ==
    /\ sessionId \in DOMAIN sessions
    /\ Cardinality({i \in DOMAIN emitted : emitted[i].chain = Outside}) < MaxOutside
    /\ TransportSend(sessionId, Outside, GetStore(Outside))
    /\ UNCHANGED <<now, ret, mgrVars, httpVars, tokVars, reqs, authVars, batchRun>>

NextCtx ==
    \/ \E s \in Inputs, b \in BOOLEAN : CreateBegin(s, b)
    \/ \E c \in creating : CreateFinish(c)
    \/ \E s \in SessionIds, id \in ClientIds : HandleSessionRequest(s, id)
    \/ \E s \in SessionIds : HandleRequestDirect(s)
    \/ \E r \in 1..MaxCtxReqs : SendResponse(r)
    \/ \E s \in SessionIds : SendOutside(s)

SpecCtx == Init /\ [][NextCtx]_vars

\* ----------------------------------------- /mcp endpoint of startHttpServer
\* The protocol library is not part of the repository; what the endpoint
\* relies on is modelled as follows.  Server.connect(transport) makes the
\* transport the server's only transport (overwriting an earlier one) and
\* installs the server as the transport's onmessage handler.  A transport
\* takes its session id when it handles the initialize request.  It records
\* request id -> HTTP response for each request it receives, and send() of a
\* response looks the connection up by the response's id in the sending
\* transport, failing when there is none.  The server sends a response on
\* its own transport: the one it had when the request was dispatched or the
\* one it has when the handler returns, depending on the library release.
RpcIds == 1..MaxRpcId
\* A client's initialize is its first request.
InitRpcIds == {1}
Default == <<"default", 0>>

\* randomUUID() in the /mcp handler; every id has a transport built for it.
HttpRandomUUID ==
    {u \in SessionIds \ DOMAIN tports :
        \A v \in SessionIds \ DOMAIN tports : u[2] <= v[2]}

\* a || b || c on session ids
OrElse(a, b, c) == IF a # Undefined THEN a ELSE IF b # Undefined THEN b ELSE c

\* The server whose handlers process the messages of a session's transport.
HandlerOf(sessionId) == McpServer

\* sessionId && transports.streamable[sessionId]
Known(sessionId) == sessionId # Undefined /\ sessionId \in DOMAIN transports

\* POST without session id, initialize body: build the transport and
\* connect mcpServer to it, up to the await of connect.
HttpInitBegin(method, sessionId, isInitializeRequest, rpcId) ==
    /\ ~Known(sessionId)
    /\ sessionId = Undefined /\ method = "POST" /\ isInitializeRequest
    /\ rpcId \in InitRpcIds
    /\ Len(conns) < MaxConns
    /\ \E newSessionId \in HttpRandomUUID :
          /\ tports' = MapSet(tports, newSessionId,
                [sessionId |-> Undefined, initialized |-> FALSE, streams |-> <<>>])
          /\ serverTransport' = newSessionId
          /\ conns' = Append(conns,
                [hdr |-> Undefined, kind |-> "initialize", rpcId |-> rpcId,
                 via |-> newSessionId, state |-> "connecting", pending |-> FALSE,
                 captured |-> Undefined, answer |-> 0, ctx |-> Undefined,
                 late |-> FALSE])
    /\ UNCHANGED <<now, ret, mgrVars, transports, served, tokVars, ctxVars,
                   authVars, batchRun>>

\* transport.handleRequest of a request message: note the connection under
\* the request id and hand the message to the server.
Received(tp, rpcId, c) == [tp EXCEPT !.streams = MapSet(@, rpcId, c)]

\* The initialize request after the await: the request context is taken
\* from the transport, which has no session id yet, then the transport
\* handles the request, takes its id and is registered.  The server's
\* initialize handler waits for nothing: its response is sent in the same
\* turn, on the transport mcpServer is connected to by then.
HttpInitHandle(c) ==
    /\ c \in 1..Len(conns) /\ conns[c].state = "connecting"
    /\ LET t == conns[c].via
           rpcId == conns[c].rpcId
           mcpSessionId == OrElse(tports[t].sessionId, conns[c].hdr, Default)
           received == [tports EXCEPT ![t] =
                Received([@ EXCEPT !.sessionId = t, !.initialized = TRUE],
                         rpcId, c)]
           x == serverTransport
           d == IF rpcId \in DOMAIN received[x].streams
                THEN received[x].streams[rpcId] ELSE 0
           opened == [conns EXCEPT ![c].state = "open", ![c].ctx = mcpSessionId]
       IN /\ transports' = MapSet(transports, t, t)
          /\ IF d = 0
             THEN /\ tports' = received
                  /\ conns' = opened
             ELSE /\ tports' = [received EXCEPT
                                   ![x].streams = MapDelete(@, rpcId)]
                  /\ conns' = [opened EXCEPT ![d].state = "answered",
                                             ![d].answer = c]
    /\ UNCHANGED <<now, ret, mgrVars, serverTransport, served, tokVars, ctxVars,
                   authVars, batchRun>>

\* A tool call of the session arrives when that session and then a session
\* created after it have each had one tool call answered.
Late(sessionId) ==
    /\ Len(served) >= 2
    /\ served[1] = sessionId
    /\ served[1][2] < served[2][2]

\* POST of a tool call with a registered session id: reuse its transport.
\* A client calls tools once its initialize has been answered, and does not
\* reuse the id of a request of its session that still waits for a response.
HttpPost(method, sessionId, isInitializeRequest, rpcId) ==
    /\ Known(sessionId)
    /\ method = "POST" /\ ~isInitializeRequest
    /\ Len(conns) < MaxConns
    /\ \E i \in 1..Len(conns) :
          /\ conns[i].kind = "initialize" /\ conns[i].via = transports[sessionId]
          /\ conns[i].state = "answered"
    /\ rpcId \notin DOMAIN tports[transports[sessionId]].streams
    /\ LET t == transports[sessionId]
           c == Len(conns) + 1
           mcpSessionId == OrElse(tports[t].sessionId, sessionId, Default)
       IN /\ tports' = [tports EXCEPT ![t] = Received(@, rpcId, c)]
          /\ conns' = Append(conns,
                [hdr |-> sessionId, kind |-> "tools/call", rpcId |-> rpcId,
                 via |-> t, state |-> "open", pending |-> TRUE,
                 captured |-> serverTransport, answer |-> 0,
                 ctx |-> mcpSessionId, late |-> Late(sessionId)])
    /\ UNCHANGED <<now, ret, mgrVars, transports, serverTransport, served, tokVars,
                   ctxVars, authVars, batchRun>>

\* POST of an initialize request with a registered session id: the
\* transport refuses a second initialization.
HttpReinit(method, sessionId, isInitializeRequest) ==
    /\ Known(sessionId)
    /\ method = "POST" /\ isInitializeRequest
    /\ ret' = [op |-> "mcp", status |-> 400, body |-> "jsonrpc error"]
    /\ UNCHANGED <<now, mgrVars, httpVars, tokVars, ctxVars, authVars, batchRun>>

\* POST that neither names a registered session nor is an initialization
\* without session id: 400 with a JSON-RPC error body.
HttpRejectPost(method, sessionId, isInitializeRequest) ==
    /\ ~Known(sessionId)
    /\ ~(sessionId = Undefined /\ method = "POST" /\ isInitializeRequest)
    /\ method = "POST"
    /\ ret' = [op |-> "mcp", status |-> 400, body |-> "jsonrpc error"]
    /\ UNCHANGED <<now, mgrVars, httpVars, tokVars, ctxVars, authVars, batchRun>>

\* Variant: GET and DELETE are rejected with the JSON-RPC error body too.
HttpRejectOtherStructured(method, sessionId, isInitializeRequest) ==
    /\ ~Known(sessionId)
    /\ ~(sessionId = Undefined /\ method = "POST" /\ isInitializeRequest)
    /\ method # "POST"
    /\ ret' = [op |-> "mcp", status |-> 400, body |-> "jsonrpc error"]
    /\ UNCHANGED <<now, mgrVars, httpVars, tokVars, ctxVars, authVars, batchRun>>

\* GET or DELETE without a registered session id: 400 with a text body.
HttpRejectOther(method, sessionId, isInitializeRequest) ==
    /\ ~Known(sessionId)
    /\ ~(sessionId = Undefined /\ method = "POST" /\ isInitializeRequest)
    /\ method # "POST"
    /\ ret' = [op |-> "mcp", status |-> 400, body |-> "text"]
    /\ UNCHANGED <<now, mgrVars, httpVars, tokVars, ctxVars, authVars, batchRun>>

\* The connection a response with this id is written to by transport x.
StreamOf(x, rpcId) ==
    IF x # Undefined /\ rpcId \in DOMAIN tports[x].streams
    THEN tports[x].streams[rpcId] ELSE 0

\* The transports mcpServer may send the response of request c on.
SendTransports(c) == {conns[c].captured, serverTransport}

\* The request whose handler has returned: nothing of it is left in the server.
Returned(conn) == [conn EXCEPT !.pending = FALSE, !.captured = Undefined]

\* served, once request c's response has been written to connection d.
Served(c, d) ==
    IF c = d /\ conns[c].kind = "tools/call"
            /\ \A i \in 1..Len(served) : served[i] # conns[c].hdr
    THEN Append(served, conns[c].hdr) ELSE served

\* The handler of request c returns and mcpServer sends the response on
\* transport x.  With no connection under the id in x the send fails and
\* nothing is written.
ServerRespond(c, x) ==
    /\ c \in 1..Len(conns) /\ conns[c].pending
    /\ x \in SendTransports(c)
    /\ LET d == StreamOf(x, conns[c].rpcId)
       IN IF d = 0
          THEN /\ conns' = [conns EXCEPT ![c] = Returned(@)]
               /\ UNCHANGED <<tports, served>>
          ELSE /\ conns' = [[conns EXCEPT ![c] = Returned(@)]
                               EXCEPT ![d].state = "answered", ![d].answer = c]
               /\ tports' = [tports EXCEPT ![x].streams = MapDelete(@, conns[c].rpcId)]
               /\ served' = Served(c, d)
    /\ UNCHANGED <<now, ret, mgrVars, transports, serverTransport, tokVars,
                   ctxVars, authVars, batchRun>>

\* Variant: the identity is read from one module-level slot that the latest
\* request to arrive has written.
HandlerIdentityShared(c) ==
    LET mcpSessionId == conns[Len(conns)].ctx
    IN [mcpSessionId |-> mcpSessionId, authSessionId |-> AuthOf(mcpSessionId)]

\* The identity the CallToolRequestSchema handler of request c resolves:
\* requestContextStorage.getStore() is the object requestContextStorage.run
\* was given for this request, at every point of the handler's execution.
HandlerIdentity(c) ==
    LET mcpSessionId == OrElse(conns[c].ctx, Undefined, Default)
    IN [mcpSessionId |-> mcpSessionId, authSessionId |-> AuthOf(mcpSessionId)]

\* app.all('/mcp', ...) on one request, up to its response or its first
\* await.  GET and DELETE of a registered session are left out.
McpRequest(method, sessionId, isInitializeRequest, rpcId) ==
    \/ HttpPost(method, sessionId, isInitializeRequest, rpcId)
    \/ HttpReinit(method, sessionId, isInitializeRequest)
    \/ HttpInitBegin(method, sessionId, isInitializeRequest, rpcId)
    \/ HttpRejectPost(method, sessionId, isInitializeRequest)
    \/ HttpRejectOther(method, sessionId, isInitializeRequest)

Methods == {"POST", "GET", "DELETE"}

\* GET /health: a fixed status and the number of keys of each transport
\* table.  No /sse connection is opened here, so that table stays empty.
Health ==
    /\ ret' = [op |-> "health", status |-> "ok",
               activeSessions |-> [streamable |-> Cardinality(DOMAIN transports),
                                   sse |-> Cardinality({})]]
    /\ UNCHANGED <<now, mgrVars, httpVars, tokVars, ctxVars, authVars, batchRun>>

NextHttp ==
    \/ \E m \in Methods, s \in Inputs, b \in BOOLEAN, r \in RpcIds :
          McpRequest(m, s, b, r)
    \/ Health
    \/ \E c \in 1..MaxConns : HttpInitHandle(c)
    \/ \E c \in 1..MaxConns, x \in Inputs : ServerRespond(c, x)

SpecHttp == Init /\ [][NextHttp]_vars

\* ------------------------------------------------ session tokens (index.ts)
Token(n) == <<"mcp_token_", n>>
Tokens == {Token(n) : n \in 1..MaxTokens}
AuthIds == {AuthOf(s) : s \in SessionIds}
TokClock == {0, Step, TokenMaxAge - Step, TokenMaxAge, TokenMaxAge + Step}

\* generateSessionToken(): a random UUID and the time; never the same twice.
\* The tokens are opaque, so they are handed out in index order.
GenerateSessionToken ==
    {t \in Tokens \ DOMAIN tokenLog :
        \A u \in Tokens \ DOMAIN tokenLog : t[2] <= u[2]}

\* The SessionData storeSessionData builds for the identity.
NewTokenData(sessionId, sessionToken) ==
    [oauth2Client |-> <<"OAuth2Client", sessionId[2]>>,
     gmail |-> <<"Gmail", sessionId[2]>>,
     sessionToken |-> sessionToken,
     tokenCreatedAt |-> now]

\* storeSessionData(sessionId, oauth2Client, gmail)
StoreSessionData(sessionId) ==
    /\ \E sessionToken \in GenerateSessionToken :
          /\ sessionStore' = MapSet(sessionStore, sessionId,
                                    NewTokenData(sessionId, sessionToken))
          /\ tokenToSessionMap' = MapSet(tokenToSessionMap, sessionToken, sessionId)
          /\ tokenLog' = MapSet(tokenLog, sessionToken,
                                [sessionId |-> sessionId, at |-> now])
          /\ ret' = [op |-> "storeSessionData", arg |-> sessionId,
                     token |-> sessionToken]
    /\ UNCHANGED <<now, mgrVars, httpVars, disk, ctxVars, authVars, batchRun>>

\* Variant: the limit is a minute too long.
ExpiredLate(tokenAge) == tokenAge > TokenMaxAge + Step

\* tokenAge > maxAge
Expired(tokenAge) == tokenAge > TokenMaxAge

\* Variant: the stored token is not compared with the presented one.
ValidateSessionTokenAnyToken(token) ==
    /\ IF token \notin DOMAIN tokenToSessionMap
       THEN /\ ret' = [op |-> "validateSessionToken", arg |-> token, ok |-> FALSE]
            /\ UNCHANGED <<sessionStore, tokenToSessionMap>>
       ELSE LET sessionId == tokenToSessionMap[token] IN
            IF sessionId \notin DOMAIN sessionStore
            THEN /\ ret' = [op |-> "validateSessionToken", arg |-> token,
                            ok |-> FALSE]
                 /\ UNCHANGED <<sessionStore, tokenToSessionMap>>
            ELSE IF Expired(now - sessionStore[sessionId].tokenCreatedAt)
            THEN /\ tokenToSessionMap' = MapDelete(tokenToSessionMap, token)
                 /\ sessionStore' = MapDelete(sessionStore, sessionId)
                 /\ ret' = [op |-> "validateSessionToken", arg |-> token,
                            ok |-> FALSE]
            ELSE /\ ret' = [op |-> "validateSessionToken", arg |-> token,
                            ok |-> TRUE, sessionId |-> sessionId,
                            sessionData |-> sessionStore[sessionId]]
                 /\ UNCHANGED <<sessionStore, tokenToSessionMap>>
    /\ UNCHANGED <<now, mgrVars, httpVars, tokenLog, disk, ctxVars,
                   authVars, batchRun>>

\* validateSessionToken(token)
ValidateSessionToken(token) ==
    /\ IF token \notin DOMAIN tokenToSessionMap
       THEN /\ ret' = [op |-> "validateSessionToken", arg |-> token, ok |-> FALSE]
            /\ UNCHANGED <<sessionStore, tokenToSessionMap>>
       ELSE LET sessionId == tokenToSessionMap[token] IN
            IF \/ sessionId \notin DOMAIN sessionStore
               \/ sessionStore[sessionId].sessionToken # token
            THEN /\ ret' = [op |-> "validateSessionToken", arg |-> token,
                            ok |-> FALSE]
                 /\ UNCHANGED <<sessionStore, tokenToSessionMap>>
            ELSE IF Expired(now - sessionStore[sessionId].tokenCreatedAt)
            THEN /\ tokenToSessionMap' = MapDelete(tokenToSessionMap, token)
                 /\ sessionStore' = MapDelete(sessionStore, sessionId)
                 /\ ret' = [op |-> "validateSessionToken", arg |-> token,
                            ok |-> FALSE]
            ELSE /\ ret' = [op |-> "validateSessionToken", arg |-> token,
                            ok |-> TRUE, sessionId |-> sessionId,
                            sessionData |-> sessionStore[sessionId]]
                 /\ UNCHANGED <<sessionStore, tokenToSessionMap>>
    /\ UNCHANGED <<now, mgrVars, httpVars, tokenLog, disk, ctxVars,
                   authVars, batchRun>>

\* Variant: a record whose token is exactly 24 hours old is removed too.
StaleFromDay == {id \in DOMAIN sessionStore :
                    now - sessionStore[id].tokenCreatedAt >= TokenMaxAge}

\* The records the cleanup timer removes: token older than 24 hours.
Stale == {id \in DOMAIN sessionStore :
            Expired(now - sessionStore[id].tokenCreatedAt)}

\* One run of the setInterval callback of startSessionCleanup.
SessionCleanup ==
    /\ sessionStore' = [id \in DOMAIN sessionStore \ Stale |-> sessionStore[id]]
    /\ tokenToSessionMap' =
          [t \in DOMAIN tokenToSessionMap \
                 {sessionStore[id].sessionToken : id \in Stale}
             |-> tokenToSessionMap[t]]
    /\ ret' = [op |-> "sessionCleanup", cleanedCount |-> Cardinality(Stale)]
    /\ UNCHANGED <<now, mgrVars, httpVars, tokenLog, disk, ctxVars,
                   authVars, batchRun>>

\* transport.onclose of a session's transport: drop the identity's record
\* and the token it stores.
OnClose(mcpSessionId) ==
    /\ LET authSessionId == AuthOf(mcpSessionId) IN
       /\ tokenToSessionMap' =
             IF authSessionId \in DOMAIN sessionStore
             THEN MapDelete(tokenToSessionMap, sessionStore[authSessionId].sessionToken)
             ELSE tokenToSessionMap
       /\ sessionStore' = MapDelete(sessionStore, authSessionId)
    /\ UNCHANGED <<now, ret, mgrVars, httpVars, tokenLog, disk, ctxVars,
                   authVars, batchRun>>

NextTok ==
    \/ Tick(TokClock)
    \/ \E id \in AuthIds : StoreSessionData(id)
    \/ \E t \in Tokens : ValidateSessionToken(t)
    \/ SessionCleanup
    \/ \E s \in SessionIds : OnClose(s)

SpecTok == Init /\ [][NextTok]_vars

\* getSessionData(sessionId), over the records the store's type allows at
\* run time: oauth2Client and gmail may be missing (null or undefined).
\* storeSessionData is only ever called with both present, so the tables
\* are drawn here as the function may be handed them.
Missing == <<"null", 0>>
Shapes == {"whole", "no oauth2Client", "no gmail", "neither"}

\* A record of the identity in the given shape, with the identity's token.
ShapedData(sessionId, shape) ==
    [oauth2Client |-> IF shape \in {"no oauth2Client", "neither"}
                      THEN Missing ELSE <<"OAuth2Client", sessionId[2]>>,
     gmail |-> IF shape \in {"no gmail", "neither"}
               THEN Missing ELSE <<"Gmail", sessionId[2]>>,
     sessionToken |-> Token(sessionId[2]),
     tokenCreatedAt |-> 0]

\* undefined, where a record is expected.
NoData == [undefined |-> TRUE]

\* What getSessionData returns.
SessionDataResult(sessionId, found, data) ==
    [op |-> "getSessionData", arg |-> sessionId, found |-> found, data |-> data]

\* Variant: only the OAuth client is looked at.
GetSessionDataClientOnly(sessionId) ==
    /\ IF sessionId \notin DOMAIN sessionStore
       THEN /\ ret' = SessionDataResult(sessionId, FALSE, NoData)
            /\ UNCHANGED <<sessionStore, tokenToSessionMap>>
       ELSE IF sessionStore[sessionId].oauth2Client = Missing
       THEN /\ sessionStore' = MapDelete(sessionStore, sessionId)
            /\ tokenToSessionMap' =
                  MapDelete(tokenToSessionMap, sessionStore[sessionId].sessionToken)
            /\ ret' = SessionDataResult(sessionId, FALSE, NoData)
       ELSE /\ ret' = SessionDataResult(sessionId, TRUE, sessionStore[sessionId])
            /\ UNCHANGED <<sessionStore, tokenToSessionMap>>
    /\ UNCHANGED <<now, mgrVars, httpVars, tokenLog, disk, ctxVars, authVars,
                   batchRun>>

GetSessionData(sessionId) ==
    /\ IF sessionId \notin DOMAIN sessionStore
       THEN /\ ret' = SessionDataResult(sessionId, FALSE, NoData)
            /\ UNCHANGED <<sessionStore, tokenToSessionMap>>
       ELSE IF \/ sessionStore[sessionId].oauth2Client = Missing
               \/ sessionStore[sessionId].gmail = Missing
       THEN /\ sessionStore' = MapDelete(sessionStore, sessionId)
            /\ tokenToSessionMap' =
                  MapDelete(tokenToSessionMap, sessionStore[sessionId].sessionToken)
            /\ ret' = SessionDataResult(sessionId, FALSE, NoData)
       ELSE /\ ret' = SessionDataResult(sessionId, TRUE, sessionStore[sessionId])
            /\ UNCHANGED <<sessionStore, tokenToSessionMap>>
    /\ UNCHANGED <<now, mgrVars, httpVars, tokenLog, disk, ctxVars, authVars,
                   batchRun>>

\* The tables hold, for some of the identities, one record each with its
\* token mapped to it.
InitRec ==
    /\ now = 0 /\ ret = NoRet
    /\ InitMgr /\ InitHttp /\ InitCtx /\ InitAuth
    /\ disk = [oauthKeys |-> FALSE, envCredentials |-> FALSE,
               keys |-> {}, credentials |-> <<>>]
    /\ \E ids \in SUBSET AuthIds : \E shape \in [ids -> Shapes] :
          /\ sessionStore = [id \in ids |-> ShapedData(id, shape[id])]
          /\ tokenToSessionMap =
                [t \in {Token(id[2]) : id \in ids} |-> AuthOf(Uuid(t[2]))]
          /\ tokenLog = [t \in {Token(id[2]) : id \in ids} |->
                            [sessionId |-> AuthOf(Uuid(t[2])), at |-> 0]]

NextRec ==
    \/ \E id \in AuthIds : GetSessionData(id)
    \/ \E id \in AuthIds : StoreSessionData(id)

SpecRec == InitRec /\ [][NextRec]_vars

\* ------------------------------------- tool calls and credentials (index.ts)
\* disk.oauthKeys: a gcp-oauth.keys.json is found for every session, in the
\* working directory or at GMAIL_OAUTH_PATH.  disk.envCredentials:
\* GMAIL_CREDENTIALS_PATH is set, so CREDENTIALS_PATH is that one file for
\* every session.  disk.keys: the session directories holding a keys file.
\* disk.credentials: credentials file -> identity whose Google account the
\* credentials in it belong to.
EnvPath == <<"env", 0>>
Null == <<"null", 0>>
NoToken == <<"no token", 0>>

\* An OAuth2Client carrying the credentials of identity number k; 0: none.
Client(k) == <<"OAuth2Client", k>>
\* google.gmail({version: 'v1', auth: oauth2Client})
GmailFor(oauth2Client) == <<"Gmail", oauth2Client[2]>>

\* CREDENTIALS_PATH after updatePaths(~/.gmail-mcp, sessionId)
CredentialsPath(sessionId) == IF disk.envCredentials THEN EnvPath ELSE sessionId

\* loadCredentials(undefined, sessionId): null without a keys file, else a
\* client, with the credentials of CREDENTIALS_PATH if that file exists.
LoadCredentials(sessionId) ==
    IF ~(disk.oauthKeys \/ sessionId \in disk.keys)
    THEN Null
    ELSE IF CredentialsPath(sessionId) \in DOMAIN disk.credentials
         THEN Client(disk.credentials[CredentialsPath(sessionId)][2])
         ELSE Client(0)

\* Variant: without a request context the session id is 'default', so the
\* record of every session is stored under one identity.
SetupAuthenticationDefault(mcpSessionId) ==
    LET authSessionId == AuthOf(Uuid(1)) IN
    /\ disk' = [disk EXCEPT
                  !.keys = @ \cup {authSessionId},
                  !.credentials = MapSet(@, CredentialsPath(authSessionId),
                                         authSessionId)]
    /\ \E sessionToken \in GenerateSessionToken :
          /\ sessionStore' = MapSet(sessionStore, authSessionId,
                                    NewTokenData(authSessionId, sessionToken))
          /\ tokenToSessionMap' =
                MapSet(tokenToSessionMap, sessionToken, authSessionId)
          /\ tokenLog' = MapSet(tokenLog, sessionToken,
                                [sessionId |-> authSessionId, at |-> now])
          /\ ret' = [op |-> "setup_authentication", arg |-> mcpSessionId,
                     token |-> sessionToken]
    /\ UNCHANGED <<now, mgrVars, httpVars, ctxVars, authVars, batchRun>>

\* setup_authentication of a session, with its own session directory: keys
\* file written, OAuth flow run, credentials written to CREDENTIALS_PATH,
\* record stored and token returned.
SetupAuthentication(mcpSessionId) ==
    LET authSessionId == AuthOf(mcpSessionId) IN
    /\ disk' = [disk EXCEPT
                  !.keys = @ \cup {authSessionId},
                  !.credentials = MapSet(@, CredentialsPath(authSessionId),
                                         authSessionId)]
    /\ \E sessionToken \in GenerateSessionToken :
          /\ sessionStore' = MapSet(sessionStore, authSessionId,
                                    NewTokenData(authSessionId, sessionToken))
          /\ tokenToSessionMap' =
                MapSet(tokenToSessionMap, sessionToken, authSessionId)
          /\ tokenLog' = MapSet(tokenLog, sessionToken,
                                [sessionId |-> authSessionId, at |-> now])
          /\ ret' = [op |-> "setup_authentication", arg |-> mcpSessionId,
                     token |-> sessionToken]
    /\ UNCHANGED <<now, mgrVars, httpVars, ctxVars, authVars, batchRun>>

\* What validateSessionToken(token) finds.
TokenState(token) ==
    IF token \notin DOMAIN tokenToSessionMap THEN "unknown"
    ELSE IF \/ tokenToSessionMap[token] \notin DOMAIN sessionStore
            \/ sessionStore[tokenToSessionMap[token]].sessionToken # token
         THEN "stale"
    ELSE IF Expired(now - sessionStore[tokenToSessionMap[token]].tokenCreatedAt)
         THEN "expired"
    ELSE "valid"

\* Variant: the session's own record is preferred to the token's.
TokenClientOwnFirst(mcpSessionId, providedToken) ==
    IF AuthOf(mcpSessionId) \in DOMAIN sessionStore
    THEN sessionStore[AuthOf(mcpSessionId)].oauth2Client
    ELSE sessionStore[tokenToSessionMap[providedToken]].oauth2Client

\* sessionOauth2Client = tokenValidation.sessionData.oauth2Client
TokenClient(mcpSessionId, providedToken) ==
    sessionStore[tokenToSessionMap[providedToken]].oauth2Client

\* The result of a tool call as far as authentication goes.
ToolResult(mcpSessionId, providedToken, result, client) ==
    [op |-> "callTool", session |-> mcpSessionId, token |-> providedToken,
     result |-> result, client |-> client]

\* CallToolRequestSchema handler for a Gmail tool (any but the four
\* authentication tools) in the request context of session mcpSessionId.
CallTool(mcpSessionId, providedToken) ==
    LET authSessionId == AuthOf(mcpSessionId)
        loaded == LoadCredentials(authSessionId)
    IN
    /\ IF providedToken # NoToken
       THEN IF TokenState(providedToken) = "valid"
            THEN /\ ret' = ToolResult(mcpSessionId, providedToken, "executed",
                                      TokenClient(mcpSessionId, providedToken))
                 /\ UNCHANGED <<sessionStore, tokenToSessionMap, tokenLog>>
            ELSE /\ ret' = ToolResult(mcpSessionId, providedToken,
                                      "invalid token", Null)
                 /\ IF TokenState(providedToken) = "expired"
                    THEN /\ tokenToSessionMap' =
                               MapDelete(tokenToSessionMap, providedToken)
                         /\ sessionStore' =
                               MapDelete(sessionStore, tokenToSessionMap[providedToken])
                    ELSE UNCHANGED <<sessionStore, tokenToSessionMap>>
                 /\ UNCHANGED tokenLog
       ELSE IF authSessionId \in DOMAIN sessionStore
            THEN /\ ret' = ToolResult(mcpSessionId, providedToken, "executed",
                                      sessionStore[authSessionId].oauth2Client)
                 /\ UNCHANGED <<sessionStore, tokenToSessionMap, tokenLog>>
       ELSE IF loaded = Null
            THEN /\ ret' = ToolResult(mcpSessionId, providedToken,
                                      "authentication required", Null)
                 /\ UNCHANGED <<sessionStore, tokenToSessionMap, tokenLog>>
       ELSE \E sessionToken \in GenerateSessionToken :
                 /\ sessionStore' = MapSet(sessionStore, authSessionId,
                       [NewTokenData(authSessionId, sessionToken) EXCEPT
                           !.oauth2Client = loaded, !.gmail = GmailFor(loaded)])
                 /\ tokenToSessionMap' =
                       MapSet(tokenToSessionMap, sessionToken, authSessionId)
                 /\ tokenLog' = MapSet(tokenLog, sessionToken,
                                       [sessionId |-> authSessionId, at |-> now])
                 /\ ret' = ToolResult(mcpSessionId, providedToken, "executed",
                                      loaded)
    /\ UNCHANGED <<now, mgrVars, httpVars, disk, ctxVars, authVars, batchRun>>

\* authenticate_with_token in the request context of session mcpSessionId:
\* validateSessionToken, then the credentials are put into the store of
\* this request (asyncLocalStorage), which ends with the request.
AuthenticateWithToken(mcpSessionId, sessionToken) ==
    /\ ret' = [op |-> "authenticate_with_token", session |-> mcpSessionId,
               token |-> sessionToken,
               ok |-> TokenState(sessionToken) = "valid"]
    /\ IF TokenState(sessionToken) = "expired"
       THEN /\ tokenToSessionMap' = MapDelete(tokenToSessionMap, sessionToken)
            /\ sessionStore' =
                  MapDelete(sessionStore, tokenToSessionMap[sessionToken])
       ELSE UNCHANGED <<sessionStore, tokenToSessionMap>>
    /\ UNCHANGED <<now, mgrVars, httpVars, tokenLog, disk, ctxVars,
                   authVars, batchRun>>

GateClock == {0, TokenMaxAge + Step}

\* The deployments: keys file found for every session or not, and
\* GMAIL_CREDENTIALS_PATH set or not.
InitGate ==
    /\ now = 0 /\ ret = NoRet
    /\ InitMgr /\ InitHttp /\ InitCtx /\ InitAuth
    /\ sessionStore = <<>> /\ tokenToSessionMap = <<>> /\ tokenLog = <<>>
    /\ \E k, e \in BOOLEAN :
          disk = [oauthKeys |-> k, envCredentials |-> e,
                  keys |-> {}, credentials |-> <<>>]

NextGate ==
    \/ Tick(GateClock)
    \/ \E s \in SessionIds : SetupAuthentication(s)
    \/ \E s \in SessionIds, t \in Tokens \cup {NoToken} : CallTool(s, t)
    \/ \E s \in SessionIds, t \in Tokens : AuthenticateWithToken(s, t)
    \/ \E s \in SessionIds : OnClose(s)

SpecGate == InitGate /\ [][NextGate]_vars

\* ------------------------------------- idle eviction and the token tables
\* The sessions of SessionAwareTransportManager with the tokens issued under
\* their auth identities.  closeSession and the transport's close() touch
\* neither sessionStore nor tokenToSessionMap.
\* setup_authentication called in a registered session of the manager.
SessionSetupAuthentication(sessionId) ==
    /\ sessionId \in DOMAIN sessions
    /\ SetupAuthentication(sessionId)

NextEvict ==
    \/ Tick(MgrClock)
    \/ \E s \in Inputs, b \in BOOLEAN : CreateBegin(s, b)
    \/ \E c \in creating : CreateFinish(c)
    \/ CleanupBegin
    \/ CleanupResume
    \/ \E s \in SessionIds : SessionSetupAuthentication(s)
    \/ \E t \in Tokens : ValidateSessionToken(t)

SpecEvict == Init /\ [][NextEvict]_vars

\* ------------------ get_auth_url / check_authentication (index.ts)
\* attempts[n]: the n-th call of get_auth_url: the identity it was made
\* for, the port of its callback server, whether that server listens,
\* whether the callback has given the attempt's client credentials, and how
\* often check_authentication has issued a token for the attempt.
\* pendingAuthStore maps an identity to the number of its pending attempt.
\* The port of the callbackUrl argument.
Ports == 1..MaxPorts

\* The client of an attempt: it has credentials once the callback has run
\* setCredentials(tokens) on it.
AttemptClient(n) ==
    IF attempts[n].completed THEN Client(attempts[n].session[2]) ELSE Client(0)

\* The attempts whose callback server listens.
Listening == {n \in DOMAIN attempts : attempts[n].listening}

\* get_auth_url in the request context of session mcpSessionId: the keys
\* file is written, a new client is made, startAuthServer listens on the
\* port and sets the pending entry of the identity, replacing an earlier
\* one.  listen() on a port in use emits an 'error' event nobody handles,
\* which ends the process: such calls are left out.
GetAuthUrl(mcpSessionId, port) ==
    LET authSessionId == AuthOf(mcpSessionId) IN
    /\ Len(attempts) < MaxAttempts
    /\ \A n \in Listening : attempts[n].port # port
    /\ disk' = [disk EXCEPT !.keys = @ \cup {authSessionId}]
    /\ attempts' = Append(attempts,
                          [session |-> authSessionId, port |-> port,
                           listening |-> TRUE, completed |-> FALSE,
                           issued |-> 0])
    /\ pendingAuthStore' =
          MapSet(pendingAuthStore, authSessionId, Len(attempts) + 1)
    /\ ret' = [op |-> "get_auth_url", session |-> mcpSessionId,
               attempt |-> Len(attempts) + 1]
    /\ UNCHANGED <<now, mgrVars, httpVars, sessionStore, tokenToSessionMap,
                   tokenLog, ctxVars, batchRun>>

\* The browser reaches the callback server of attempt n with a code:
\* getToken, setCredentials on the attempt's client, and the tokens are
\* written to the credentials path the attempt was started with.
OAuthCallback(n) ==
    /\ n \in Listening
    /\ attempts' = [attempts EXCEPT ![n].completed = TRUE]
    /\ disk' = [disk EXCEPT
                  !.credentials = MapSet(@, CredentialsPath(attempts[n].session),
                                         attempts[n].session)]
    /\ ret' = [op |-> "oauth2callback", attempt |-> n]
    /\ UNCHANGED <<now, mgrVars, httpVars, sessionStore, tokenToSessionMap,
                   tokenLog, ctxVars, pendingAuthStore, batchRun>>

\* check_authentication in the request context of session mcpSessionId.
CheckAuthentication(mcpSessionId) ==
    LET authSessionId == AuthOf(mcpSessionId) IN
    IF authSessionId \notin DOMAIN pendingAuthStore
    THEN /\ ret' = [op |-> "check_authentication", session |-> mcpSessionId,
                    result |-> "no pending authentication", token |-> Null]
         /\ UNCHANGED <<now, mgrVars, httpVars, tokVars, ctxVars, authVars,
                        batchRun>>
    ELSE IF CredentialsPath(authSessionId) \notin DOMAIN disk.credentials
    THEN /\ ret' = [op |-> "check_authentication", session |-> mcpSessionId,
                    result |-> "not yet complete", token |-> Null]
         /\ UNCHANGED <<now, mgrVars, httpVars, tokVars, ctxVars, authVars,
                        batchRun>>
    ELSE LET n == pendingAuthStore[authSessionId] IN
         /\ attempts' = [attempts EXCEPT ![n].listening = FALSE,
                                         ![n].issued = @ + 1]
         /\ pendingAuthStore' = MapDelete(pendingAuthStore, authSessionId)
         /\ \E sessionToken \in GenerateSessionToken :
               /\ sessionStore' = MapSet(sessionStore, authSessionId,
                     [NewTokenData(authSessionId, sessionToken) EXCEPT
                         !.oauth2Client = AttemptClient(n),
                         !.gmail = GmailFor(AttemptClient(n))])
               /\ tokenToSessionMap' =
                     MapSet(tokenToSessionMap, sessionToken, authSessionId)
               /\ tokenLog' = MapSet(tokenLog, sessionToken,
                                     [sessionId |-> authSessionId, at |-> now])
               /\ ret' = [op |-> "check_authentication",
                          session |-> mcpSessionId, result |-> "completed",
                          token |-> sessionToken, attempt |-> n]
         /\ UNCHANGED <<now, mgrVars, httpVars, disk, ctxVars, batchRun>>

NextAuth ==
    \/ \E s \in SessionIds, p \in Ports : GetAuthUrl(s, p)
    \/ \E n \in 1..MaxAttempts : OAuthCallback(n)
    \/ \E s \in SessionIds : CheckAuthentication(s)
    \/ \E s \in SessionIds : SetupAuthentication(s)
    \/ \E s \in SessionIds : OnClose(s)

SpecAuth == InitGate /\ [][NextAuth]_vars

\* ------------------------------- batch tools and the error path (index.ts)
\* batch_modify_emails over the message ids at positions 1..n of messageIds.
\* batchSize is any number z.number() accepts; sizes and the loop index i
\* are counted in units of 1/Den, so that fractions can be told apart.
\* failing: the ids for which gmail.users.messages.modify always rejects;
\* flaky: the ids for which it rejects the first time it is invoked only.
\* calls[m]: how often the operation was invoked for id m in this request.
\* turns: how often the loop of processBatches has called processFn(batch).
BatchSizes == (-Den)..(MaxItems * Den)

\* validatedArgs.batchSize || 50
EffectiveBatchSize(batchSize) ==
    IF batchSize = 0 THEN DefaultBatchSize * Den ELSE batchSize

\* ToIntegerOrInfinity of an index: the fraction is dropped, towards zero.
Trunc(x) == IF x >= 0 THEN x \div Den ELSE -((-x) \div Den)

\* An index of slice relative to a list of n items: a negative one counts
\* from the end, and the result is kept within 0..n.
Rel(n, k) ==
    IF k < 0 THEN (IF n + k > 0 THEN n + k ELSE 0)
    ELSE IF k > n THEN n ELSE k

\* Variant: the end index is included.
SliceInclusive(n, start, end) ==
    [k \in 1..(Rel(n, Trunc(end) + 1) - Rel(n, Trunc(start))) |->
        Rel(n, Trunc(start)) + k]

\* items.slice(start, end): the positions it selects, in order.
Slice(n, start, end) ==
    [k \in 1..(Rel(n, Trunc(end)) - Rel(n, Trunc(start))) |->
        Rel(n, Trunc(start)) + k]

\* The elements of a sequence, as a set.
Range(seq) == {seq[k] : k \in DOMAIN seq}

\* The operation rejects for the id when invoked in the batch call.
FailsFirst(m) == m \in batchRun.failing \cup batchRun.flaky
\* The operation rejects for the id when invoked again, on its own.
Fails(m) == m \in batchRun.failing
Succeeds(m) == m \notin batchRun.failing

\* The tool is called: processBatches starts with empty results.
BatchModifyEmails(n, batchSize, failing, flaky) ==
    /\ batchRun.phase # "running"
    /\ batchRun' = [phase |-> "running", n |-> n,
                    batchSize |-> EffectiveBatchSize(batchSize),
                    failing |-> failing, flaky |-> flaky, i |-> 0, turns |-> 0,
                    calls |-> [m \in 1..n |-> 0],
                    successes |-> <<>>, failures |-> <<>>]
    /\ UNCHANGED <<now, ret, mgrVars, httpVars, tokVars, ctxVars, authVars>>

\* One turn of the loop of processBatches: processFn(batch) invokes the
\* operation for every id of the batch (Promise.all); if one rejects, the
\* catch calls processFn([item]) for every item of the batch in turn.
ProcessBatch ==
    /\ batchRun.phase = "running"
    /\ batchRun.i < batchRun.n * Den
    /\ batchRun.turns < MaxTurns
    /\ LET batch == Slice(batchRun.n, batchRun.i, batchRun.i + batchRun.batchSize)
           rejected == \E m \in Range(batch) : FailsFirst(m)
       IN batchRun' = [batchRun EXCEPT
             !.i = @ + batchRun.batchSize,
             !.turns = @ + 1,
             !.calls = [m \in 1..batchRun.n |->
                          IF m \in Range(batch)
                          THEN @[m] + (IF rejected THEN 2 ELSE 1)
                          ELSE @[m]],
             !.successes = @ \o (IF rejected THEN SelectSeq(batch, Succeeds)
                                             ELSE batch),
             !.failures = @ \o (IF rejected THEN SelectSeq(batch, Fails)
                                            ELSE <<>>)]
    /\ UNCHANGED <<now, ret, mgrVars, httpVars, tokVars, ctxVars, authVars>>

\* The loop is over: the summary is returned as the tool's result.
BatchReturn ==
    /\ batchRun.phase = "running"
    /\ batchRun.i >= batchRun.n * Den
    /\ batchRun' = [batchRun EXCEPT !.phase = "done"]
    /\ ret' = [op |-> "batch_modify_emails",
               text |-> "Batch label modification complete.",
               successCount |-> Len(batchRun.successes),
               failed |-> batchRun.failures]
    /\ UNCHANGED <<now, mgrVars, httpVars, tokVars, ctxVars, authVars>>

\* modify_email: one invocation of the operation; a rejection goes to the
\* handler's catch, which returns `Error: ${error.message}`.
ModifyEmail(messageId, rejects) ==
    /\ ret' = [op |-> "modify_email", messageId |-> messageId,
               text |-> IF rejects THEN "Error: message" ELSE "Email modified",
               invoked |-> 1]
    /\ UNCHANGED <<now, mgrVars, httpVars, tokVars, ctxVars, authVars, batchRun>>

NextBatch ==
    \/ \E n \in 0..MaxItems, batchSize \in BatchSizes :
          \E failing \in SUBSET (1..n) : \E flaky \in SUBSET ((1..n) \ failing) :
             BatchModifyEmails(n, batchSize, failing, flaky)
    \/ ProcessBatch
    \/ BatchReturn
    \/ \E m \in 1..MaxItems, rejects \in BOOLEAN : ModifyEmail(m, rejects)

SpecBatch == Init /\ [][NextBatch]_vars

\* ------------------------------ either wiring of the session layer
\* The process serves /mcp either through the session manager or through
\* the endpoint of startHttpServer; one run uses one of them.
MgrIdle == now = 0 /\ InitMgr
HttpIdle == InitHttp

NextEndpoints ==
    \/ HttpIdle /\ NextMgr
    \/ MgrIdle /\ NextHttp

SpecEndpoints == Init /\ [][NextEndpoints]_vars

\* ------------------------------------------------------------- properties

\* C1: the response for a request is written only to the connection that
\* submitted it, never to the connection of another request or session;
\* here across sessions: the connection of one session's tool call is never
\* handed the result of a tool call of another session.
C1_NoCrossDelivery ==
    \A d \in 1..Len(conns) :
        (conns[d].state = "answered"
            /\ conns[d].kind = "tools/call"
            /\ conns[conns[d].answer].kind = "tools/call") =>
                conns[conns[d].answer].hdr = conns[d].hdr

\* C2: a tool call of S1 that arrives after S1 and then S2 (created in that
\* order) have each completed a tool call gets its own result on its own
\* connection: once its handler has returned, its connection holds that
\* result, and it never holds another request's result.
C2_LateCallAnswered ==
    \A c \in 1..Len(conns) :
        conns[c].late =>
            /\ conns[c].state = "answered" => conns[c].answer = c
            /\ ~conns[c].pending => conns[c].state = "answered"

\* C3: every registered session has a protocol handler and a transport of
\* its own, shared with no other session, and its transport reports the id
\* the session is registered under.
C3_OneUnitPerSession ==
    /\ \A s1, s2 \in DOMAIN transports :
          s1 # s2 => /\ HandlerOf(s1) # HandlerOf(s2)
                     /\ transports[s1] # transports[s2]
    /\ \A s \in DOMAIN transports : tports[transports[s]].sessionId = s

\* A step in which a getOrCreateSession(undefined, initialize) returns.
CreateReturns ==
    /\ ret' # ret
    /\ ret'.op = "getOrCreateSession"
    /\ ret'.arg = Undefined /\ ret'.init
    /\ ret'.ok

\* C4: getOrCreateSession without session id on an initialization request
\* adds exactly one entry, under an id that was not registered, with
\* authSessionId 'auth-' + id and requestCount 0, returns it as new, and
\* leaves every other entry as it was.
C4_CreateAddsOneFreshEntry ==
    [][CreateReturns =>
        /\ ret'.ok /\ ret'.isNewSession
        /\ LET id == ret'.sessionData.sessionId IN
              /\ id \notin DOMAIN sessions
              /\ DOMAIN sessions' = DOMAIN sessions \cup {id}
              /\ sessions'[id] = ret'.sessionData
              /\ sessions'[id].authSessionId = <<"auth-uuid", id[2]>>
              /\ sessions'[id].requestCount = 0
              /\ sessions'[id].transport.sessionId = id
              /\ \A k \in DOMAIN sessions : sessions'[k] = sessions[k]]_vars

\* C4 witness: a session was created while another one was registered.
C4_Witness ==
    /\ ret.op = "getOrCreateSession" /\ ret.ok /\ ret.isNewSession
    /\ Cardinality(DOMAIN sessions) >= 2
    /\ ret.sessionData.sessionId \in DOMAIN sessions

\* C5: getOrCreateSession with a registered id returns that record, not
\* new, with lastActivity the current time and requestCount one higher, and
\* changes no other session; an initialization request is treated alike.
C5_ResolveTouchesOnlyThatSession ==
    [][\A s \in SessionIds, b \in BOOLEAN :
        (GetOrCreateSession(s, b) /\ s \in DOMAIN sessions) =>
            /\ ret'.op = "getOrCreateSession" /\ ret'.arg = s /\ ret'.init = b
            /\ ret'.ok /\ ~ret'.isNewSession
            /\ DOMAIN sessions' = DOMAIN sessions
            /\ ret'.sessionData = sessions'[s]
            /\ sessions'[s] = [sessions[s] EXCEPT
                                  !.lastActivity = now,
                                  !.requestCount = sessions[s].requestCount + 1]
            /\ \A k \in DOMAIN sessions \ {s} : sessions'[k] = sessions[k]]_vars

\* C5 witness: an initialization request carrying a registered id was
\* resolved, later than the session's creation, with another session there.
C5_Witness ==
    /\ ret.op = "getOrCreateSession" /\ ret.ok /\ ~ret.isNewSession
    /\ ret.init
    /\ ret.sessionData.lastActivity > ret.sessionData.createdAt
    /\ Cardinality(DOMAIN sessions) >= 2

\* The session id names no registered session, or there is none and the
\* request is no initialization.
InvalidFor(registered, sessionId, isInit) ==
    \/ sessionId # Undefined /\ sessionId \notin registered
    \/ sessionId = Undefined /\ ~isInit

\* getOrCreateSession on such a request throws and leaves the registry.
MgrRejects ==
    \A s \in Inputs, b \in BOOLEAN :
        (GetOrCreateSession(s, b) /\ InvalidFor(DOMAIN sessions, s, b)) =>
            /\ ret'.op = "getOrCreateSession" /\ ret'.arg = s
            /\ ~ret'.ok /\ ret'.error = "Invalid session ID"
            /\ mgrVars' = mgrVars

\* The /mcp endpoint answers such a request 400 with the given body and
\* leaves its registry and every transport.
HttpRejects(body(_)) ==
    \A m \in Methods, s \in Inputs, b \in BOOLEAN, r \in RpcIds :
        (McpRequest(m, s, b, r)
            /\ InvalidFor(DOMAIN transports, s, m = "POST" /\ b)) =>
            /\ ret'.op = "mcp" /\ ret'.status = 400 /\ ret'.body = body(m)
            /\ httpVars' = httpVars

StructuredBody(m) == "jsonrpc error"
BodyByMethod(m) == IF m = "POST" THEN "jsonrpc error" ELSE "text"

C7_CloseReturnsWhetherRegistered ==
    [][/\ \A s \in SessionIds :
            CloseSession(s) =>
                IF s \in DOMAIN sessions
                THEN /\ ret' = ret
                     /\ closing'[s] = closing[s] + 1
                     /\ sessions[s].transport.obj \in closedT'
                ELSE /\ ret' = [op |-> "closeSession", arg |-> s, result |-> FALSE]
                     /\ mgrVars' = mgrVars
       /\ (ret' # ret /\ ret'.op = "closeSession" /\ ret'.result) =>
                /\ closing[ret'.arg] > 0
                /\ ret'.arg \notin DOMAIN sessions'
                /\ ret'.arg \in DOMAIN sessions =>
                      sessions[ret'.arg].transport.obj \in closedT'
       /\ \A s \in DOMAIN sessions' \ DOMAIN sessions :
                sessions'[s].transport.obj \notin closedT']_vars

\* C7 witness: closeSession returned false for a session closed before.
C7_Witness ==
    /\ ret.op = "closeSession" /\ ~ret.result
    /\ ret.arg \in minted /\ ret.arg \notin DOMAIN sessions
    /\ closing[ret.arg] = 0
    /\ TransportObj(ret.arg[2]) \in closedT

\* C8: while closeSession(id) awaits the close of the transport, a
\* getOrCreateSession(id) is rejected as an invalid session.
C8_NoResolveWhileClosing ==
    [][\A s \in SessionIds, b \in BOOLEAN :
        (GetOrCreateSession(s, b) /\ closing[s] > 0) =>
            ret'.op = "getOrCreateSession" /\ ret'.arg = s /\ ~ret'.ok]_vars

\* validateSessionToken(token) would succeed now.
Validates(token) ==
    /\ token \in DOMAIN tokenToSessionMap
    /\ tokenToSessionMap[token] \in DOMAIN sessionStore
    /\ sessionStore[tokenToSessionMap[token]].sessionToken = token
    /\ now - sessionStore[tokenToSessionMap[token]].tokenCreatedAt <= TokenMaxAge

\* The record of the identity the token was issued for still stores it.
StillStored(token) ==
    /\ tokenLog[token].sessionId \in DOMAIN sessionStore
    /\ sessionStore[tokenLog[token].sessionId].sessionToken = token

\* C9: a token issued for x validates to x right after issuance and at age
\* 23h59m (x's record not removed in between); at age 24h01m validation
\* fails and leaves the token out of the token table; and a token that
\* does not validate never validates later.
C9_TokenLifecycle ==
    [][\A t \in DOMAIN tokenLog :
        /\ ValidateSessionToken(t) =>
            LET age == now - tokenLog[t].at IN
            /\ (age \in {0, TokenMaxAge - Step} /\ StillStored(t)) =>
                  /\ ret'.op = "validateSessionToken" /\ ret'.ok
                  /\ ret'.sessionId = tokenLog[t].sessionId
            /\ age = TokenMaxAge + Step =>
                  /\ ret'.op = "validateSessionToken" /\ ~ret'.ok
                  /\ t \notin DOMAIN tokenToSessionMap'
        /\ ~Validates(t) => ~Validates(t)']_vars

\* A step in which validateSessionToken(t) succeeds.
ValidateSucceeds(t) ==
    /\ ValidateSessionToken(t)
    /\ ret'.op = "validateSessionToken" /\ ret'.arg = t /\ ret'.ok

\* The token is in the token table and the record it maps to stores it.
Current(t) ==
    /\ t \in DOMAIN tokenToSessionMap
    /\ tokenToSessionMap[t] \in DOMAIN sessionStore
    /\ sessionStore[tokenToSessionMap[t]].sessionToken = t

C11_RejectionRemovesBoth ==
    [][\A t \in Tokens :
        (ValidateSessionToken(t) /\ t \in DOMAIN tokenToSessionMap
            /\ ret'.op = "validateSessionToken" /\ ~ret'.ok) =>
                /\ t \notin DOMAIN tokenToSessionMap'
                /\ tokenToSessionMap[t] \notin DOMAIN sessionStore']_vars

\* A later token was issued for the identity this token was issued for.
Superseded(t) ==
    \E u \in DOMAIN tokenLog :
        /\ tokenLog[u].sessionId = tokenLog[t].sessionId
        /\ u[2] > t[2]

\* C12: once a new token has been issued for an identity that held one, the
\* earlier token never validates again, and the new token validates (while
\* the identity's record stores it and it is not older than 24 hours).
C12_ReissueInvalidatesEarlier ==
    [][\A t \in DOMAIN tokenLog :
        ValidateSessionToken(t) =>
            /\ ret'.op = "validateSessionToken" /\ ret'.arg = t
            /\ Superseded(t) => ~ret'.ok
            /\ (~Superseded(t) /\ StillStored(t)
                  /\ now - tokenLog[t].at <= TokenMaxAge) =>
                    /\ ret'.ok
                    /\ ret'.sessionId = tokenLog[t].sessionId
                    /\ ret'.sessionData.sessionToken = t]_vars

\* C12 witness: the earlier token of an identity was just rejected while the
\* token issued after it is the one the identity's record stores.
C12_Witness ==
    /\ ret.op = "validateSessionToken" /\ ~ret.ok
    /\ ret.arg \in DOMAIN tokenLog /\ Superseded(ret.arg)
    /\ \E u \in DOMAIN tokenLog :
          /\ u[2] > ret.arg[2]
          /\ tokenLog[u].sessionId = tokenLog[ret.arg].sessionId
          /\ Validates(u)

\* The session has no credential record of its own and presents no valid
\* token.
Unauthenticated(mcpSessionId, providedToken) ==
    /\ AuthOf(mcpSessionId) \notin DOMAIN sessionStore
    /\ providedToken = NoToken \/ TokenState(providedToken) # "valid"

\* C13: a Gmail tool call in a session without a credential record of its
\* own and without a valid token is answered with an authentication error
\* and runs nothing with another tenant's credentials, whatever other
\* sessions' credentials are stored; here its second half: the call is
\* not executed with the credentials of another identity.
C13_NoOtherTenantsCredentials ==
    [][\A s \in SessionIds, t \in Tokens \cup {NoToken} :
        (CallTool(s, t) /\ Unauthenticated(s, t)) =>
            /\ ret'.op = "callTool"
            /\ ret'.result = "executed" =>
                  ret'.client \in {Client(0), Client(s[2])}]_vars

\* A step that ends a run of cleanupInactiveSessions.
SweepCompletes == sweep' # sweep /\ ~sweep'.running

\* C14 as stated: when a sweep of the idle sweeper completes, every session
\* whose lastActivity was more than one hour old at the sweep's reading of
\* the clock is out of the registry getSessionStats lists, and every session
\* whose lastActivity was less than one hour old is still in it.
C14_SweepRemovesOldKeepsYoung ==
    [][SweepCompletes =>
        /\ \A s \in sweep'.old : s \notin DOMAIN sessions'
        /\ \A s \in sweep'.young : s \in DOMAIN sessions']_vars

\* C14 amended: when a sweep completes, every session whose lastActivity
\* was more than one hour old at the sweep's reading of the clock and that
\* no request touched while the sweep ran is out of the registry; and the
\* sweep removes only sessions whose lastActivity was more than one hour
\* old at that reading (a session idle for exactly one hour stays).
C14_SweepRemovesIdleUntouched ==
    [][/\ SweepCompletes =>
            \A s \in sweep'.old \cap DOMAIN sessions' :
                sessions'[s].lastActivity >= sweep'.now
       /\ CleanupResume =>
            /\ sweep.awaiting \in sweep.old
            /\ DOMAIN sessions' = DOMAIN sessions \ {sweep.awaiting}
       /\ (CleanupBegin \/ CleanupResume) =>
            (sweep'.running => sweep'.awaiting \in sweep'.old)]_vars

\* C14 witness: a sweep has completed that removed a session idle for more
\* than an hour and left one idle for exactly an hour and a younger one.
C14_Witness ==
    /\ ~sweep.running /\ sweep.old # {} /\ sweep.old \cap DOMAIN sessions = {}
    /\ \E s \in DOMAIN sessions : sweep.now - sessions[s].lastActivity <= IdleMaxAge

\* C15: a send of a session's transport that finds no request context emits
\* nothing: super.send is not reached.
C15_NoContextNoEmission ==
    \A i \in DOMAIN emitted :
        emitted[i].ctx = NoStore => ~emitted[i].superSend

\* C16: the context in effect when the response of request r is sent is
\* the one handleSessionRequest built for r (its session, its auth session,
\* its request id), whatever other requests are in flight.
C16_ResponseInOwnContext ==
    \A i \in DOMAIN emitted :
        emitted[i].chain # Outside =>
            LET r == emitted[i].chain IN
                /\ emitted[i].ctx = reqs[r].entry
                /\ emitted[i].ctx.sessionId = reqs[r].sessionId
                /\ emitted[i].ctx.authSessionId = AuthOf(reqs[r].sessionId)
                /\ emitted[i].ctx.requestId = RequestIdOf(reqs[r].id, r)
                /\ emitted[i].transport = reqs[r].sessionId

\* C16 witness: the response of a request was sent after a request of
\* another session had entered, and before that one's response.
C16_Witness ==
    \E i, j \in DOMAIN emitted :
        /\ i < j
        /\ emitted[i].chain # Outside /\ emitted[j].chain # Outside
        /\ emitted[i].chain > emitted[j].chain
        /\ reqs[emitted[i].chain].sessionId # reqs[emitted[j].chain].sessionId

CreateThrows ==
    /\ ret' # ret
    /\ ret'.op = "getOrCreateSession"
    /\ ret'.arg = Undefined /\ ret'.init
    /\ ~ret'.ok

\* C18: when the construction of the Server, the registration of its
\* handlers or connect fails, getOrCreateSession throws and the registry is
\* as before; the id of the failed session is never registered and never
\* resolved.
C18_FailedCreationLeavesNothing ==
    [][/\ CreateThrows =>
            /\ sessions' = sessions /\ order' = order
            /\ ret'.newSessionId \in failed'
            /\ ret'.newSessionId \notin DOMAIN sessions'
       /\ failed' \cap DOMAIN sessions' = {}
       /\ \A s \in failed, b \in BOOLEAN :
            GetOrCreateSession(s, b) =>
                /\ ret'.op = "getOrCreateSession" /\ ret'.arg = s
                /\ ~ret'.ok]_vars

\* C18 witness: with a session registered, the id of a session whose
\* connect was rejected has been presented and refused.
C18_Witness ==
    /\ ret.op = "getOrCreateSession" /\ ~ret.ok
    /\ ret.arg \in failed
    /\ objects = Cardinality(minted)
    /\ DOMAIN sessions # {}

\* C19: a closeSession that found the entry of its id before it suspended
\* still finds it when it resumes to delete it: no other closeSession of
\* the id, of a request or of the sweeper, has run in between.
C19_CloseNotInterleaved ==
    [][\A s \in SessionIds :
        (CloseFinish(s) \/ (CleanupResume /\ sweep.awaiting = s)) =>
            s \in DOMAIN sessions]_vars

\* A step in which getSessionStats returns.
StatsReturns == ret' # ret /\ ret'.op = "getSessionStats"

\* A step in which /health answers.
HealthReturns == ret' # ret /\ ret'.op = "health"

TokenOld(data) == now - data.tokenCreatedAt > TokenMaxAge

\* C21: a run of the token sweeper leaves no record whose token is older
\* than 24 hours, and the token of each record it removes is out of the
\* token table; it removes a record for the age of its token alone, leaves
\* every other record and its token as they were, and changes neither
\* session registry.
C21_TokenSweepByAgeOnly ==
    [][SessionCleanup =>
        /\ \A id \in DOMAIN sessionStore' : ~TokenOld(sessionStore'[id])
        /\ \A id \in DOMAIN sessionStore :
              IF TokenOld(sessionStore[id])
              THEN /\ id \notin DOMAIN sessionStore'
                   /\ sessionStore[id].sessionToken \notin DOMAIN tokenToSessionMap'
              ELSE /\ id \in DOMAIN sessionStore'
                   /\ sessionStore'[id] = sessionStore[id]
                   /\ sessionStore[id].sessionToken \in DOMAIN tokenToSessionMap'
                   /\ tokenToSessionMap'[sessionStore[id].sessionToken] = id
        /\ mgrVars' = mgrVars /\ httpVars' = httpVars]_vars

\* C21 witness: the sweeper has just removed a record and left a record
\* whose token is exactly 24 hours old.
C21_Witness ==
    /\ ret.op = "sessionCleanup" /\ ret.cleanedCount >= 1
    /\ \E id \in DOMAIN sessionStore :
          now - sessionStore[id].tokenCreatedAt = TokenMaxAge

\* C22: once a session is closed, every token issued under its auth
\* identity is out of the token table and out of every record, so that it
\* validates no longer.
C22_CloseDestroysToken ==
    [][\A s \in SessionIds :
        OnClose(s) =>
            \A t \in DOMAIN tokenLog :
                tokenLog[t].sessionId = AuthOf(s) =>
                    /\ t \notin DOMAIN tokenToSessionMap'
                    /\ \A id \in DOMAIN sessionStore' :
                          sessionStore'[id].sessionToken # t]_vars

\* The session the token was issued in has been evicted by the idle sweeper.
IssuerEvicted(t) ==
    \E s \in sweep.old :
        /\ AuthOf(s) = tokenLog[t].sessionId
        /\ s \notin DOMAIN sessions

\* C23: a token younger than 24 hours, the latest issued under its
\* identity, validates to that identity after the idle sweeper has evicted
\* the session it was issued in.
C23_TokenOutlivesSession ==
    [][\A t \in DOMAIN tokenLog :
        (/\ ValidateSessionToken(t)
         /\ IssuerEvicted(t)
         /\ ~Superseded(t)
         /\ now - tokenLog[t].at < TokenMaxAge) =>
            /\ ret'.op = "validateSessionToken" /\ ret'.arg = t /\ ret'.ok
            /\ ret'.sessionId = tokenLog[t].sessionId]_vars

\* C23 witness: a token has just validated whose session the sweeper had
\* removed.
C23_Witness ==
    /\ ret.op = "validateSessionToken" /\ ret.ok
    /\ IssuerEvicted(ret.arg)
    /\ ~sweep.running

\* The record of an identity, if there is one.
Entry(store, authSessionId) ==
    IF authSessionId \in DOMAIN store THEN {store[authSessionId]} ELSE {}

\* The tokens the token table maps to an identity.
TokensIn(map, authSessionId) == {t \in DOMAIN map : map[t] = authSessionId}

\* A step of a tool call made in the session.
RequestIn(s) ==
    \/ SetupAuthentication(s)
    \/ \E t \in Tokens \cup {NoToken} : CallTool(s, t)
    \/ \E t \in Tokens : AuthenticateWithToken(s, t)

\* The step presents the expired token of the identity and removes the
\* identity's record and that token.
RemovesExpired(s, a) ==
    \E t \in Tokens :
        /\ CallTool(s, t) \/ AuthenticateWithToken(s, t)
        /\ TokenState(t) = "expired" /\ tokenToSessionMap[t] = a
        /\ a \notin DOMAIN sessionStore'
        /\ TokensIn(tokenToSessionMap', a) = TokensIn(tokenToSessionMap, a) \ {t}

\* C25 as stated: a tool call made in a session leaves the credential
\* record and the tokens of every other session's identity as they were.
C25_OnlyOwnRecordTouched ==
    [][\A s \in SessionIds :
        RequestIn(s) =>
            \A a \in AuthIds \ {AuthOf(s)} :
                /\ Entry(sessionStore', a) = Entry(sessionStore, a)
                /\ TokensIn(tokenToSessionMap', a) = TokensIn(tokenToSessionMap, a)]_vars

\* C25 amended: as above, except that a call presenting the expired token of
\* another session's identity removes that identity's record and that token.
C25_OtherTouchedOnlyOnExpiry ==
    [][\A s \in SessionIds :
        RequestIn(s) =>
            \A a \in AuthIds \ {AuthOf(s)} :
                \/ /\ Entry(sessionStore', a) = Entry(sessionStore, a)
                   /\ TokensIn(tokenToSessionMap', a) = TokensIn(tokenToSessionMap, a)
                \/ RemovesExpired(s, a)]_vars

\* C25 witness: a call in one session has just been refused for the expired
\* token of another identity, whose record and token are gone, while the
\* caller's own record is there.
C25_Witness ==
    /\ ret.op = "callTool" /\ ret.result = "invalid token"
    /\ ret.token \in DOMAIN tokenLog
    /\ tokenLog[ret.token].sessionId # AuthOf(ret.session)
    /\ now - tokenLog[ret.token].at > TokenMaxAge
    /\ tokenLog[ret.token].sessionId \notin DOMAIN sessionStore
    /\ ret.token \notin DOMAIN tokenToSessionMap
    /\ AuthOf(ret.session) \in DOMAIN sessionStore

\* The identity of the session has no credentials file of its own.
NoOwnCredentials(s) ==
    \A path \in DOMAIN disk.credentials : disk.credentials[path] # AuthOf(s)

\* C27: a Gmail tool call with a token that does not validate is answered
\* with the token error, whatever the session's own record; one without
\* token, in a session without record and without credentials, with the
\* authentication-required error.
C27_DistinctAuthErrors ==
    [][\A s \in SessionIds, t \in Tokens \cup {NoToken} :
        CallTool(s, t) =>
            /\ (t # NoToken /\ TokenState(t) # "valid") =>
                  ret'.result = "invalid token"
            /\ (/\ t = NoToken
                /\ AuthOf(s) \notin DOMAIN sessionStore
                /\ NoOwnCredentials(s)) =>
                  ret'.result = "authentication required"]_vars

\* C28: right after authenticate_with_token has succeeded in a session, a
\* Gmail tool call of the session without token runs with the credentials
\* of the token, the token being valid still.
C28_TokenAuthPersists ==
    [][\A s \in SessionIds :
        (/\ CallTool(s, NoToken)
         /\ ret.op = "authenticate_with_token" /\ ret.ok /\ ret.session = s
         /\ TokenState(ret.token) = "valid") =>
            /\ ret'.result = "executed"
            /\ ret'.client = sessionStore[tokenToSessionMap[ret.token]].oauth2Client]_vars

\* C29: a Gmail tool call in one session with the valid token of another
\* session's identity runs with the clients of that identity's record and
\* leaves the caller's own record, and every other, as it was.
C29_TokenOfOtherSession ==
    [][\A s \in SessionIds, t \in Tokens :
        (/\ CallTool(s, t)
         /\ TokenState(t) = "valid"
         /\ tokenToSessionMap[t] # AuthOf(s)) =>
            /\ ret'.op = "callTool" /\ ret'.result = "executed"
            /\ ret'.client = sessionStore[tokenToSessionMap[t]].oauth2Client
            /\ GmailFor(ret'.client) = sessionStore[tokenToSessionMap[t]].gmail
            /\ Entry(sessionStore', AuthOf(s)) = Entry(sessionStore, AuthOf(s))
            /\ sessionStore' = sessionStore
            /\ tokenToSessionMap' = tokenToSessionMap]_vars

\* C29 witness: a call was run with the token of another identity in a
\* session that has a record of its own, with other clients.
C29_Witness ==
    /\ ret.op = "callTool" /\ ret.result = "executed"
    /\ ret.token # NoToken
    /\ ret.token \in DOMAIN tokenToSessionMap
    /\ tokenToSessionMap[ret.token] # AuthOf(ret.session)
    /\ AuthOf(ret.session) \in DOMAIN sessionStore
    /\ sessionStore[AuthOf(ret.session)].oauth2Client # ret.client
\* C24: for each authentication attempt started by get_auth_url, the
\* completed credential and its token are handed out by check_authentication
\* exactly once: a check_authentication that issues a token does so for a
\* pending attempt whose callback has completed and for which no token was
\* issued before.
C24_IssuedOnceAfterCompletion ==
    [][\A s \in SessionIds :
          (CheckAuthentication(s) /\ ret'.op = "check_authentication"
              /\ ret'.token # Null)
          => /\ attempts[pendingAuthStore[AuthOf(s)]].completed
             /\ attempts[pendingAuthStore[AuthOf(s)]].issued = 0]_vars

\* C26: once a session has been closed, no pending-auth entry and no
\* listening callback server of that session remains.
C26_ClosedLeavesNoPendingAuth ==
    [][\A s \in SessionIds :
          OnClose(s)
          => /\ AuthOf(s) \notin DOMAIN pendingAuthStore'
             /\ \A n \in Listening' : attempts'[n].session # AuthOf(s)]_vars

\* C30: a failure of a domain operation is reported to the caller and the
\* failed operation is never invoked again for the same request: within one
\* tool call the operation is invoked at most once for an id it fails for.
C30_FailedOperationNotRetried ==
    batchRun.phase # "idle"
    => \A m \in batchRun.failing : batchRun.calls[m] <= 1

\* C31: for every tool call that arrived over /mcp for session S and whose
\* handler has not returned yet, the identity the handler resolves is
\* mcpSessionId = S and authSessionId = 'auth-' + S, never 'default',
\* whatever other requests have arrived meanwhile.
C31_HandlerIdentityIsOwnSession ==
    \A c \in 1..Len(conns) :
       (conns[c].kind = "tools/call" /\ conns[c].pending)
       => /\ HandlerIdentity(c).mcpSessionId = conns[c].hdr
          /\ HandlerIdentity(c).authSessionId = AuthOf(conns[c].hdr)
          /\ HandlerIdentity(c).mcpSessionId # Default

\* Tool calls of two sessions are being handled at the same time, the one
\* that arrived first still running after the other arrived.
C31_Witness ==
    \E c, d \in 1..Len(conns) :
       /\ c < d
       /\ conns[c].kind = "tools/call" /\ conns[c].pending
       /\ conns[d].kind = "tools/call" /\ conns[d].pending
       /\ conns[c].hdr # conns[d].hdr

\* The record lacks its OAuth client or its Gmail client.
Malformed(data) == data.oauth2Client = Missing \/ data.gmail = Missing

\* C32: getSessionData removes a record that lacks its OAuth client or its
\* Gmail client, together with that record's token mapping, and returns no
\* record; for a well-formed record it returns the record, and then, as
\* for an identity without record, neither table changes.
C32_GetSessionDataDropsMalformed ==
    [][\A id \in AuthIds :
          (GetSessionData(id) /\ ret'.op = "getSessionData" /\ ret'.arg = id)
          => IF id \in DOMAIN sessionStore /\ Malformed(sessionStore[id])
             THEN /\ sessionStore' = MapDelete(sessionStore, id)
                  /\ sessionStore[id].sessionToken \notin DOMAIN tokenToSessionMap'
                  /\ \A t \in DOMAIN tokenToSessionMap :
                        t # sessionStore[id].sessionToken
                        => /\ t \in DOMAIN tokenToSessionMap'
                           /\ tokenToSessionMap'[t] = tokenToSessionMap[t]
                  /\ ~ret'.found
             ELSE /\ UNCHANGED <<sessionStore, tokenToSessionMap>>
                  /\ ret'.found = (id \in DOMAIN sessionStore)
                  /\ ret'.found => ret'.data = sessionStore[id]]_vars

\* getSessionData has just returned no record for an identity that holds a
\* token: its malformed record has been removed, while a record and a
\* token mapping of another identity are still there.
C32_Witness ==
    /\ ret.op = "getSessionData" /\ ~ret.found
    /\ ret.arg \notin DOMAIN sessionStore
    /\ ret.arg \in {tokenLog[t].sessionId : t \in DOMAIN tokenLog}
    /\ DOMAIN sessionStore # {}
    /\ DOMAIN tokenToSessionMap # {}

\* How often m occurs in the sequence.
Count(seq, m) == Cardinality({k \in DOMAIN seq : seq[k] = m})

\* C33: processBatches accounts for every input item exactly once: no item
\* ever has more than one entry in successes and failures together, an
\* item is in failures only if its batch call was rejected and its own
\* retry was rejected too, and when processBatches returns every item has
\* exactly one entry and successes plus failures number the items.
C33_EveryItemAccountedOnce ==
    batchRun.phase # "idle"
    => /\ \A m \in 1..batchRun.n :
            /\ Count(batchRun.successes, m) + Count(batchRun.failures, m) <= 1
            /\ Count(batchRun.failures, m) = 1
               => batchRun.calls[m] = 2 /\ Fails(m)
            /\ batchRun.phase = "done"
               => Count(batchRun.successes, m) + Count(batchRun.failures, m) = 1
       /\ batchRun.phase = "done"
          => Len(batchRun.successes) + Len(batchRun.failures) = batchRun.n

\* processBatches has returned for a list of several items handled in more
\* than one batch, with an item whose retry failed in failures and an item
\* whose batch call was rejected but whose retry went through in successes.
C33_Witness ==
    /\ batchRun.phase = "done"
    /\ batchRun.n >= 2 /\ batchRun.turns >= 2
    /\ batchRun.failures # <<>>
    /\ \E m \in batchRun.flaky :
          Count(batchRun.successes, m) = 1 /\ batchRun.calls[m] = 2

\* C39: processBatches terminates for every item list and every batchSize
\* the schemas accept: each turn of its loop moves the index i forward, so
\* that i reaches items.length after finitely many turns.
C39_LoopIndexAdvances ==
    [][ProcessBatch => batchRun'.i > batchRun.i]_vars

\* A successful getOrCreateSession call made with the id of a session.
ResolvedWith(id) == \E b \in BOOLEAN : ResolveExisting(id, b)

\* C34: a registered session's requestCount is the number of successful
\* getOrCreateSession calls made with its id since it was created: it is 0
\* when the session is registered, goes up by one with each such call and
\* changes with nothing else; its createdAt never changes, and its
\* lastActivity never decreases and is never earlier than its createdAt.
C34_RequestCountCountsResolves ==
    [][\A id \in DOMAIN sessions' :
          /\ sessions'[id].lastActivity >= sessions'[id].createdAt
          /\ IF id \notin DOMAIN sessions
             THEN sessions'[id].requestCount = 0
             ELSE /\ sessions'[id].createdAt = sessions[id].createdAt
                  /\ sessions'[id].lastActivity >= sessions[id].lastActivity
                  /\ sessions'[id].requestCount =
                        sessions[id].requestCount
                           + (IF ResolvedWith(id) THEN 1 ELSE 0)]_vars

\* A session resolved twice, the second time later than its creation,
\* next to a session that has been created and never resolved.
C34_Witness ==
    \E a, b \in DOMAIN sessions :
       /\ sessions[a].requestCount = 2
       /\ sessions[a].lastActivity > sessions[a].createdAt
       /\ sessions[b].requestCount = 0

\* C35: when destroy() completes, the session registry is empty, whatever
\* was created or resolved while destroy was awaiting transport closes.
C35_DestroyEmptiesRegistry ==
    [][(teardown.phase # "done" /\ teardown'.phase = "done")
          => DOMAIN sessions' = {}]_vars

\* C36: the token table and the credential store agree: every token of
\* tokenToSessionMap maps to a record of sessionStore whose stored token is
\* that token, and every record's stored token is in tokenToSessionMap,
\* mapped to the record's id.
C36_TablesAgree ==
    /\ \A t \in DOMAIN tokenToSessionMap :
          /\ tokenToSessionMap[t] \in DOMAIN sessionStore
          /\ sessionStore[tokenToSessionMap[t]].sessionToken = t
    /\ \A id \in DOMAIN sessionStore :
          /\ sessionStore[id].sessionToken \in DOMAIN tokenToSessionMap
          /\ tokenToSessionMap[sessionStore[id].sessionToken] = id

\* C37: check_authentication reports success for a session only if the
\* OAuth callback of that session's own pending attempt has completed; a
\* credentials file written by another session or by an earlier attempt
\* never makes it succeed.
C37_SuccessOnlyAfterOwnCallback ==
    [][\A s \in SessionIds :
          (CheckAuthentication(s) /\ ret'.op = "check_authentication"
              /\ ret'.session = s /\ ret'.result = "completed")
          => attempts[ret'.attempt].completed]_vars

\* C40: every callback listener started by get_auth_url is either the one
\* the pending-auth table holds under its session or closed.
C40_ListenersReferencedOrClosed ==
    \A n \in Listening :
       /\ attempts[n].session \in DOMAIN pendingAuthStore
       /\ pendingAuthStore[attempts[n].session] = n

\* C38: the requestId placed in the request context equals the JSON-RPC id
\* of the incoming request whenever the request carries one, the id 0
\* included.
C38_RequestIdIsClientId ==
    \A r \in DOMAIN reqs : reqs[r].entry.requestId = JsonId(reqs[r].id)

====
